---- MODULE Spec2Model ----
(***************************************************************************)
(* A model of the AIN committee orchestrator (soullab-workspace/scripts):  *)
(* the provider router of ain_providers.py and the deliberation protocol   *)
(* of ain_orchestrator.py.                                                 *)
(*                                                                         *)
(* Strings that the code parses (the failover chain) are sequences of      *)
(* tokens: a word, a comma or a blank.  Strings that the code only passes  *)
(* on or formats (error messages, response texts) are sequences of their   *)
(* parts, so that f-string embedding is concatenation.                     *)
(***************************************************************************)
EXTENDS Integers, Sequences, FiniteSets, TLC

VARIABLES
    ctorArgs,   \* the arguments and environment of the last AINProviderRouter(...) call
    router,     \* the AINProviderRouter instance (or the error its construction raised)
    rcall,      \* one direct router.generate call: its frame
    attempts,   \* history: the provider.generate invocations of the direct call, in order
    dpc,        \* where CommitteeOrchestrator.deliberate is: idle, gather, synth, done, raised
    dargs,      \* the arguments of the deliberate call: question, framings, context
    agents,     \* the Agent objects, in creation order
    tasks,      \* the respond() task of each agent: its state, router call and result
    responses,  \* what asyncio.gather returned
    agent_responses,    \* the response dict, as its items in insertion order
    synthesis_prompt,   \* the prompt _synthesize built
    scall,      \* the router.generate call of _synthesize: its frame
    session,    \* the session dict deliberate returned
    derror,     \* the exception deliberate raised
    ain_log,    \* ain_sessions.jsonl (AIN_LOG): what was written to it, write by write
    returned_sessions,  \* history: the sessions deliberations have returned, in order
    mpc,        \* where the top-level invocation (__main__) is: none, running, exited
    args,       \* the parsed command line of the invocation, and the files it names
    stdout,     \* what the invocation has printed on standard output
    exit_status,    \* the exit status of the invocation
    document,   \* the text review_writing read from the file it reviews
    payload,    \* the JSON object of a POST /generate of the practices service
    generated   \* what generate answered: the practices of its JSON response

ctorVars == <<ctorArgs, rcall, attempts>>
delibVars == <<dpc, dargs, agents, tasks, responses, agent_responses, synthesis_prompt,
               scall, session, derror, ain_log, returned_sessions>>
mainVars == <<mpc, args, stdout, exit_status, document>>
practiceVars == <<payload, generated>>
vars == <<ctorArgs, router, rcall, attempts, dpc, dargs, agents, tasks, responses,
          agent_responses, synthesis_prompt, scall, session, derror, ain_log,
          returned_sessions, mpc, args, stdout, exit_status, document, payload, generated>>

-----------------------------------------------------------------------------
(* Bounds *)

\* Longest failover-chain string (in tokens) given to the constructor.
MaxChainLen == 3

\* Most framings given to one deliberation.
MaxAgents == 2

\* Most records in the session log: with that many, no further deliberation is
\* started and no other process appends.
MaxSessions == 2

-----------------------------------------------------------------------------
(* Values *)

\* Python None, and an unset environment variable.
None == "<None>"

\* keys of self.providers
KnownProviders == {"anthropic", "openai", "local"}

\* the providers whose is_available() is bool(self.api_key)
HostedProviders == {"anthropic", "openai"}

DefaultPriority == <<"anthropic", "openai", "local">>

Comma == ","
Blank == " "

\* The tokens chain strings are made of: the three known identifiers, one
\* unknown word, the separator and whitespace.
Tokens == KnownProviders \cup {"invalid", Comma, Blank}

\* The strings of at most n tokens.
Strings(n) == UNION {[1..k -> Tokens] : k \in 0..n}

\* An optional string argument: None, or a string (possibly empty).
NoString == [given |-> FALSE, text |-> <<>>]
Str(s) == [given |-> TRUE, text |-> s]

\* Values for the preference argument and for AIN_PROVIDER.
PreferenceInputs == {None, "auto", "anthropic", "openai", "local", "bogus"}

\* An exception: its class and its str().
NoError == [kind |-> "", msg |-> <<>>]
Exc(kind, msg) == [kind |-> kind, msg |-> msg]

-----------------------------------------------------------------------------
(* str.split(",") and str.strip() *)

\* Index of the first comma of s, 0 when there is none.
FirstComma(s) ==
    IF \E i \in 1..Len(s) : s[i] = Comma
    THEN CHOOSE i \in 1..Len(s) : s[i] = Comma /\ \A j \in 1..(i-1) : s[j] # Comma
    ELSE 0

RECURSIVE split(_)
split(s) ==
    LET c == FirstComma(s) IN
    IF c = 0 THEN <<s>>
    ELSE <<SubSeq(s, 1, c - 1)>> \o split(SubSeq(s, c + 1, Len(s)))

RECURSIVE lstrip(_)
lstrip(s) == IF s # <<>> /\ Head(s) = Blank THEN lstrip(Tail(s)) ELSE s

RECURSIVE rstrip(_)
rstrip(s) ==
    IF s # <<>> /\ s[Len(s)] = Blank THEN rstrip(SubSeq(s, 1, Len(s) - 1)) ELSE s

strip(s) == lstrip(rstrip(s))

\* [p.strip() for p in fallback_chain.split(",")]
custom_priority_mutant_no_strip(chain) == split(chain)

custom_priority(chain) == LET parts == split(chain) IN [i \in 1..Len(parts) |-> strip(parts[i])]

\* An identifier read from a chain string is a token sequence; it is a key of
\* self.providers when it is exactly one known word.
valid_providers == {<<p>> : p \in KnownProviders}

\* [p for p in custom_priority if p not in valid_providers]
invalid(cp) == SelectSeq(cp, LAMBDA p : p \notin valid_providers)

-----------------------------------------------------------------------------
(* AINProviderRouter.__init__ *)

\* x or y, for optional strings: None and "" are falsy.
Truthy(s) == s.given /\ s.text # <<>>

\* os.environ.get("AIN_FALLBACK_CHAIN", "")
EnvChain(env) == IF env.AIN_FALLBACK_CHAIN.given THEN env.AIN_FALLBACK_CHAIN ELSE Str(<<>>)

\* fallback_chain or os.environ.get("AIN_FALLBACK_CHAIN", "")
fallback_chain_mutant_env_first(fallback_chain, env) ==
    IF Truthy(EnvChain(env)) THEN EnvChain(env) ELSE fallback_chain

fallback_chain_resolved(fallback_chain, env) ==
    IF Truthy(fallback_chain) THEN fallback_chain ELSE EnvChain(env)

\* preference or os.environ.get("AIN_PROVIDER", "auto")
preference_resolved(preference, env) ==
    IF preference # None THEN preference
    ELSE IF env.AIN_PROVIDER # None THEN env.AIN_PROVIDER ELSE "auto"

\* The validation reports the first unknown identifier only.
validate_mutant_first_only(cp) == IF invalid(cp) = <<>> THEN <<>> ELSE <<Head(invalid(cp))>>

\* if invalid: raise ValueError(f"Invalid providers in fallback chain: {invalid}...")
validate(cp) == invalid(cp)

\* The router a construction leaves: status "ok" with preference, priority
\* and the credentials the providers read, or status "raised" with the
\* ValueError and the identifiers it names.
AINProviderRouter(preference, fallback_chain, env) ==
    LET pref  == preference_resolved(preference, env)
        chain == fallback_chain_resolved(fallback_chain, env)
        cp    == custom_priority(chain.text)
        bad   == validate(cp)
    IN  IF Truthy(chain)
        THEN IF bad # <<>>
             THEN [status |-> "raised", preference |-> pref, priority |-> <<>>,
                   keys |-> {}, named |-> bad,
                   error |-> Exc("ValueError", <<"Invalid providers in fallback chain: ">>)]
             ELSE [status |-> "ok", preference |-> pref,
                   priority |-> [i \in 1..Len(cp) |-> cp[i][1]],
                   keys |-> env.keys, named |-> <<>>, error |-> NoError]
        ELSE [status |-> "ok", preference |-> pref, priority |-> DefaultPriority,
              keys |-> env.keys, named |-> <<>>, error |-> NoError]

NoRouter == [status |-> "none", preference |-> None, priority |-> <<>>,
             keys |-> {}, named |-> <<>>, error |-> NoError]

-----------------------------------------------------------------------------
(* The providers *)

\* LLMProvider.name of the provider registered under a key of self.providers.
ProviderName(p) ==
    CASE p = "anthropic" -> "Anthropic Claude"
      [] p = "openai"    -> "OpenAI GPT-4"
      [] OTHER           -> "Ollama (deepseek-r1:latest)"

\* The prefix the provider puts before the messages of the errors it raises.
ErrorPrefix(p) ==
    CASE p = "anthropic" -> "Anthropic: "
      [] p = "openai"    -> "OpenAI: "
      [] OTHER           -> "Ollama: "

\* is_available(): credential presence for the hosted providers, always True
\* for the local one.
is_available(r, p) == p \notin HostedProviders \/ p \in r.keys

\* What one provider.generate(prompt, system, ...) call can do: return a text
\* (an answer of that provider to that request), raise
\* ProviderUnavailableError (every failure of the request itself), or raise
\* ImportError (the client package is missing).
Returned(p, request) ==
    [ok |-> TRUE,
     text |-> <<"text of ", p, " for ">> \o request.system \o request.prompt,
     error |-> NoError]
Unavailable(p) ==
    [ok |-> FALSE, text |-> <<>>,
     error |-> Exc("ProviderUnavailableError", <<ErrorPrefix(p), "request failed">>)]
Failed(p) ==
    [ok |-> FALSE, text |-> <<>>,
     error |-> Exc("ImportError", <<p, " package not installed">>)]

-----------------------------------------------------------------------------
(* AINProviderRouter.get_available_providers *)

\* The candidate order before the availability filter.
order_mutant_keep_chain(r) == r.priority

\* An order that honours the preference only when the chain holds it.
order_mutant_chain_members_only(r) ==
    IF r.preference # "auto" /\ \E i \in 1..Len(r.priority) : r.priority[i] = r.preference
    THEN <<r.preference>> \o SelectSeq(r.priority, LAMBDA p : p # r.preference)
    ELSE r.priority

order(r) ==
    IF r.preference # "auto"
    THEN <<r.preference>> \o SelectSeq(r.priority, LAMBDA p : p # r.preference)
    ELSE r.priority

\* The listing without the is_available() filter.
get_available_providers_mutant_no_filter(r) ==
    [ok |-> TRUE, list |-> order(r), error |-> NoError]

\* A listing that passes over the names that are no key of self.providers.
get_available_providers_mutant_skip_unknown(r) ==
    [ok |-> TRUE,
     list |-> SelectSeq(order(r), LAMBDA p : p \in KnownProviders /\ is_available(r, p)),
     error |-> NoError]

\* The list comprehension looks every name of the order up in self.providers:
\* the first name that is no key raises KeyError.  Otherwise the names whose
\* provider is available, in order.
get_available_providers(r) ==
    LET o   == order(r)
        bad == {i \in 1..Len(o) : o[i] \notin KnownProviders}
    IN  IF bad # {}
        THEN [ok |-> FALSE, list |-> <<>>,
              error |-> Exc("KeyError", <<o[CHOOSE i \in bad : \A j \in bad : i <= j]>>)]
        ELSE [ok |-> TRUE, list |-> SelectSeq(o, LAMBDA p : is_available(r, p)),
              error |-> NoError]

-----------------------------------------------------------------------------
(* AINProviderRouter.generate *)

NoResult == [text |-> <<>>, provider |-> None]

\* The frame of a generate call that has not started.
NoRequest == [prompt |-> <<>>, system |-> <<>>]
IdleCall == [pc |-> "idle", request |-> NoRequest, available |-> <<>>, idx |-> 0,
             last_error |-> NoError, result |-> NoResult, error |-> NoError]

CallRaised(frame, e) == [frame EXCEPT !.pc = "raised", !.error = e]

\* From the entry of generate to its first await (the first provider's
\* generate), or to the raise that ends it.  Without the "if not available"
\* guard the loop runs zero times and the call ends at the final raise.
generate_begin_mutant_no_guard(r, request) ==
    LET l == get_available_providers(r)
        new == [IdleCall EXCEPT !.request = request]
    IN
    IF ~l.ok THEN CallRaised(new, l.error)
    ELSE IF l.list = <<>>
    THEN CallRaised(new, Exc("RuntimeError", <<"All providers failed. Last error: ", "None">>))
    ELSE [new EXCEPT !.pc = "awaiting", !.available = l.list, !.idx = 1]

generate_begin(r, request) ==
    LET l == get_available_providers(r)
        new == [IdleCall EXCEPT !.request = request]
    IN
    IF ~l.ok THEN CallRaised(new, l.error)
    ELSE IF l.list = <<>>
    THEN CallRaised(new, Exc("RuntimeError", <<"No LLM providers available.">>))
    ELSE [new EXCEPT !.pc = "awaiting", !.available = l.list, !.idx = 1]

\* After the loop: raise RuntimeError(f"All providers failed. Last error: {last_error}")
all_failed(frame) ==
    CallRaised(frame, Exc("RuntimeError",
                          <<"All providers failed. Last error: ">> \o frame.last_error.msg))

\* except ...: last_error = e; continue -- the next provider of the list is
\* awaited, or the loop ends.
advance_mutant_keep_first_error(frame, e) ==
    LET f == [frame EXCEPT !.last_error = IF @ = NoError THEN e ELSE @] IN
    IF frame.idx < Len(frame.available)
    THEN [f EXCEPT !.idx = frame.idx + 1]
    ELSE all_failed(f)

advance_mutant_give_up(frame, e) ==
    all_failed([frame EXCEPT !.last_error = e])

\* A loop that starts over at the first candidate after the last one failed.
advance_mutant_start_over(frame, e) ==
    LET f == [frame EXCEPT !.last_error = e] IN
    IF frame.idx < Len(frame.available)
    THEN [f EXCEPT !.idx = frame.idx + 1]
    ELSE [f EXCEPT !.idx = 1]

advance(frame, e) ==
    LET f == [frame EXCEPT !.last_error = e] IN
    IF frame.idx < Len(frame.available)
    THEN [f EXCEPT !.idx = frame.idx + 1]
    ELSE all_failed(f)

\* return (response, provider_name)
success_mutant_first_name(frame, text) ==
    [frame EXCEPT !.pc = "returned",
                  !.result = [text |-> text, provider |-> frame.available[1]]]

success(frame, text) ==
    [frame EXCEPT !.pc = "returned",
                  !.result = [text |-> text, provider |-> frame.available[frame.idx]]]

\* A loop whose only handler is the one of ProviderUnavailableError: any
\* other exception of a provider leaves generate.
generate_resume_mutant_unavailable_only(frame, outcome) ==
    IF outcome.ok THEN success(frame, outcome.text)
    ELSE CASE outcome.error.kind = "ProviderUnavailableError" -> advance(frame, outcome.error)
           [] OTHER -> CallRaised(frame, outcome.error)

\* From the return of the awaited provider.generate to the next await or to
\* the end of the call.
generate_resume(frame, outcome) ==
    IF outcome.ok THEN success(frame, outcome.text)
    ELSE CASE outcome.error.kind = "ProviderUnavailableError" -> advance(frame, outcome.error)
           [] OTHER -> advance(frame, outcome.error)

\* The provider a suspended call waits for.
Awaited(frame) == frame.available[frame.idx]

\* print(...): one line of text on standard output.
print_line(parts) == [kind |-> "text", pretty |-> FALSE, obj |-> parts]

\* if verbose: print(f"Trying {provider.name}...")
trying(frame) ==
    IF frame.pc = "awaiting"
    THEN <<print_line(<<"Trying ", ProviderName(Awaited(frame)), "...">>)>>
    ELSE <<>>

\* What generate(verbose=True) prints from its call to its first await.
generate_begin_prints(verbose, frame) == IF verbose THEN trying(frame) ELSE <<>>

\* What generate(verbose=True) prints from the return of the awaited
\* provider.generate to the next await or the end of the call.
generate_resume_prints(verbose, frame, outcome) ==
    IF ~verbose THEN <<>>
    ELSE (IF outcome.ok
          THEN <<print_line(<<"Used ", ProviderName(Awaited(frame))>>)>>
          ELSE IF outcome.error.kind = "ProviderUnavailableError"
          THEN <<print_line(<<ProviderName(Awaited(frame)), " unavailable: ">> \o outcome.error.msg)>>
          ELSE <<print_line(<<ProviderName(Awaited(frame)), " error: ">> \o outcome.error.msg)>>)
         \o trying(generate_resume(frame, outcome))

-----------------------------------------------------------------------------
(* The state of a process in which deliberate has not been called *)

NoDelibArgs == [question |-> <<>>, framings |-> <<>>, context |-> <<>>, verbose |-> FALSE]
NoSession == [timestamp |-> None, question |-> <<>>, framings |-> <<>>, responses |-> <<>>,
              synthesis |-> <<>>, elapsed_seconds |-> None, provider_used |-> None]

NoDeliberation ==
    /\ dpc = "idle"
    /\ dargs = NoDelibArgs
    /\ agents = <<>>
    /\ tasks = <<>>
    /\ responses = <<>>
    /\ agent_responses = <<>>
    /\ synthesis_prompt = <<>>
    /\ scall = IdleCall
    /\ session = NoSession
    /\ derror = NoError
    /\ ain_log = <<>>
    /\ returned_sessions = <<>>

\* The request of the direct generate call.
DirectRequest == [prompt |-> <<"prompt">>, system |-> <<>>]

\* The state of a process that was not started from the command line.
NoConfig == [state |-> "none", value |-> <<>>]

NoCliArgs == [command |-> None, json |-> FALSE, json_pretty |-> FALSE, verbose |-> FALSE,
              file |-> None, config |-> NoConfig]

\* The exit status of a process that has not exited.
NoStatus == -1

\* No request has reached the practices service.
NoPayload == [facet_code |-> None, element_preference |-> None,
              duration_available_min |-> None, difficulty |-> None]
NoResponse == [state |-> "none", practices |-> <<>>]
NoPractices ==
    /\ payload = NoPayload
    /\ generated = NoResponse

NoMain ==
    /\ mpc = "none"
    /\ args = NoCliArgs
    /\ stdout = <<>>
    /\ exit_status = NoStatus
    /\ document = <<>>

-----------------------------------------------------------------------------
(* The state machine of the constructor: SpecCtor *)

\* The arguments and the environment of one construction.
CtorInputs ==
    {a \in [preference : PreferenceInputs,
            fallback_chain : {NoString} \cup {Str(s) : s \in Strings(MaxChainLen)},
            env : [AIN_PROVIDER : {None, "auto", "openai", "bogus"},
                   AIN_FALLBACK_CHAIN : {NoString} \cup {Str(s) : s \in Strings(MaxChainLen)},
                   keys : {{}, HostedProviders}]] :
        Len(a.fallback_chain.text) + Len(a.env.AIN_FALLBACK_CHAIN.text) <= MaxChainLen}

NoArgs == [preference |-> None, fallback_chain |-> NoString,
           env |-> [AIN_PROVIDER |-> None, AIN_FALLBACK_CHAIN |-> NoString, keys |-> {}]]

InitCtor ==
    /\ ctorArgs \in CtorInputs
    /\ router = NoRouter
    /\ rcall = IdleCall
    /\ attempts = <<>>
    /\ NoDeliberation
    /\ NoMain
    /\ NoPractices

\* AINProviderRouter(preference, fallback_chain) returns a router.
Construct ==
    /\ router.status = "none"
    /\ LET r == AINProviderRouter(ctorArgs.preference, ctorArgs.fallback_chain, ctorArgs.env)
       IN  r.status = "ok" /\ router' = r
    /\ UNCHANGED <<ctorArgs, rcall, attempts>>
    /\ UNCHANGED <<delibVars, mainVars, practiceVars>>

\* AINProviderRouter(preference, fallback_chain) raises ValueError.
ConstructRaises ==
    /\ router.status = "none"
    /\ LET r == AINProviderRouter(ctorArgs.preference, ctorArgs.fallback_chain, ctorArgs.env)
       IN  r.status = "raised" /\ router' = r
    /\ UNCHANGED <<ctorArgs, rcall, attempts>>
    /\ UNCHANGED <<delibVars, mainVars, practiceVars>>

NextCtor == Construct \/ ConstructRaises

SpecCtor == InitCtor /\ [][NextCtor]_vars

-----------------------------------------------------------------------------
(* The state machine of one router and its generate calls: SpecRouter *)

\* The routers that constructions with an explicit chain of at most
\* MaxChainLen tokens return (the environment overrides unset).
RouterInputs ==
    [preference : PreferenceInputs,
     fallback_chain : {NoString} \cup {Str(s) : s \in Strings(MaxChainLen)},
     env : [AIN_PROVIDER : {None}, AIN_FALLBACK_CHAIN : {NoString},
            keys : SUBSET HostedProviders]]

Routers ==
    {r \in {AINProviderRouter(a.preference, a.fallback_chain, a.env) : a \in RouterInputs} :
        r.status = "ok"}

InitRouter ==
    /\ ctorArgs = NoArgs
    /\ router \in Routers
    /\ rcall = IdleCall
    /\ attempts = <<>>
    /\ NoDeliberation
    /\ NoMain
    /\ NoPractices

\* One invocation of provider.generate, and how it ended ("pending" while awaited).
Invocation(p) == [provider |-> p, outcome |-> "pending", error |-> NoError]

\* The history after a step of the call: the awaited invocation is closed with
\* its outcome, and the invocation the new frame awaits is opened.
Closed(hist, outcome) ==
    IF hist = <<>> THEN hist
    ELSE [hist EXCEPT ![Len(hist)].outcome = IF outcome.ok THEN "ok" ELSE "raised",
                      ![Len(hist)].error = outcome.error]

Opened(hist, frame) ==
    IF frame.pc = "awaiting" THEN Append(hist, Invocation(Awaited(frame))) ELSE hist

\* await router.generate(...): the call runs to its first await.
Generate ==
    /\ router.status = "ok"
    /\ rcall.pc # "awaiting"
    /\ rcall' = generate_begin(router, DirectRequest)
    /\ attempts' = Opened(<<>>, rcall')
    /\ UNCHANGED <<ctorArgs, router>>
    /\ UNCHANGED <<delibVars, mainVars, practiceVars>>

\* The awaited provider.generate ends with `outcome`; the call runs on.
ProviderEnds(outcome) ==
    /\ rcall.pc = "awaiting"
    /\ rcall' = generate_resume(rcall, outcome)
    /\ attempts' = Opened(Closed(attempts, outcome), rcall')
    /\ UNCHANGED <<ctorArgs, router>>
    /\ UNCHANGED <<delibVars, mainVars, practiceVars>>

ProviderReturns == rcall.pc = "awaiting" /\ ProviderEnds(Returned(Awaited(rcall), rcall.request))
ProviderUnavailable == rcall.pc = "awaiting" /\ ProviderEnds(Unavailable(Awaited(rcall)))
ProviderFails == rcall.pc = "awaiting" /\ ProviderEnds(Failed(Awaited(rcall)))

NextRouter == Generate \/ ProviderReturns \/ ProviderUnavailable \/ ProviderFails

SpecRouter == InitRouter /\ [][NextRouter]_vars

-----------------------------------------------------------------------------
(* Claims about the router's generate call (SpecRouter) *)

\* The direct call has got past the candidate listing with a list.
Listed == rcall.pc # "idle" /\ get_available_providers(router).ok

\* The invocations made so far are the candidates 1..n in order, one per entry.
InCandidateOrder ==
    /\ Len(attempts) <= Len(rcall.available)
    /\ \A i \in 1..Len(attempts) : attempts[i].provider = rcall.available[i]

\* C1: a generate call over a non-empty candidate list returns the text and
\* the identity of the first candidate, in candidate order, whose generate
\* succeeds; every candidate before it was invoked once and failed, and none
\* after it is invoked.
C1_FirstSuccessWins ==
    /\ (rcall.pc \in {"awaiting", "returned"} \/ attempts # <<>>) =>
          /\ InCandidateOrder
          /\ \A i \in 1..(Len(attempts) - 1) : attempts[i].outcome = "raised"
    /\ rcall.pc = "returned" =>
          LET k == Len(attempts) IN
          /\ k >= 1
          /\ attempts[k].outcome = "ok"
          /\ rcall.result.provider = rcall.available[k]
          /\ rcall.result.text = Returned(rcall.available[k], DirectRequest).text

\* A call that returned the second candidate's output after the first one
\* failed, with a third candidate left untouched.
C1_Witness ==
    /\ rcall.pc = "returned"
    /\ Len(attempts) = 2
    /\ Len(rcall.available) = 3
    /\ rcall.result.provider = rcall.available[2]
    /\ rcall.available[2] # rcall.available[1]

NoDuplicates(s) == \A i, j \in 1..Len(s) : i # j => s[i] # s[j]

\* C2: for every accepted chain and every preference the candidate list holds
\* no backend twice, and no backend is invoked more than once within one
\* generate call.
C2_NoBackendTwice ==
    /\ NoDuplicates(rcall.available)
    /\ NoDuplicates([i \in 1..Len(attempts) |-> attempts[i].provider])

\* A call that invoked the same backend a second time after it had failed.
C2_InvokedTwice ==
    \E i, j \in 1..Len(attempts) :
        i < j /\ attempts[i].provider = attempts[j].provider /\ attempts[i].outcome = "raised"

\* The members of s that are in S, in the order of s.
RECURSIVE Kept(_, _)
Kept(s, S) ==
    IF s = <<>> THEN <<>>
    ELSE IF s[Len(s)] \in S
         THEN Append(Kept(SubSeq(s, 1, Len(s) - 1), S), s[Len(s)])
         ELSE Kept(SubSeq(s, 1, Len(s) - 1), S)

AvailableNow == {p \in KnownProviders : is_available(router, p)}

\* C3: the candidate order is the preferred backend (when the preference
\* names one) followed by the other chain members in chain order, or the chain
\* as configured under 'auto'; restricted to the available backends, order kept.
C3_CandidateOrder ==
    (rcall.pc # "idle" /\ router.preference \in KnownProviders \cup {"auto"}) =>
        LET pref == router.preference
            rest == Kept(router.priority, AvailableNow \ {pref})
        IN  /\ pref = "auto" => rcall.available = Kept(router.priority, AvailableNow)
            /\ (pref # "auto" /\ pref \in AvailableNow) => rcall.available = <<pref>> \o rest
            /\ (pref # "auto" /\ pref \notin AvailableNow) => rcall.available = rest

\* A listing that moved an available preferred backend from later in the
\* chain to the front and dropped an unavailable chain member.
C3_Witness ==
    /\ rcall.pc = "awaiting"
    /\ router.preference \in KnownProviders
    /\ router.priority # <<>> /\ router.priority[1] # router.preference
    /\ \E i \in 1..Len(router.priority) : router.priority[i] = router.preference
    /\ \E i \in 1..Len(router.priority) : router.priority[i] \notin AvailableNow
    /\ Len(rcall.available) >= 2

NoProvidersError == Exc("RuntimeError", <<"No LLM providers available.">>)

\* C4: when no backend of the candidate order is available, generate fails
\* with the no-backends-available error and invokes no backend at all.
C4_NoBackendsAvailable ==
    (Listed /\ \A i \in 1..Len(order(router)) : order(router)[i] \notin AvailableNow) =>
        /\ rcall.pc = "raised"
        /\ rcall.error = NoProvidersError
        /\ rcall.result = NoResult
        /\ attempts = <<>>

\* A generate call on a router whose chain has members, none available.
C4_Witness ==
    /\ Listed
    /\ router.priority # <<>>
    /\ \A i \in 1..Len(router.priority) : router.priority[i] \notin AvailableNow
    /\ rcall.pc = "raised"

AllFailedError(e) == Exc("RuntimeError", <<"All providers failed. Last error: ">> \o e.msg)

\* C5: when the candidate list is non-empty and every candidate's generate
\* fails, generate fails with the all-backends-failed error, which carries the
\* error of the last candidate attempted.
C5_AllFailedCarriesLast ==
    (/\ rcall.pc # "awaiting"
     /\ attempts # <<>>
     /\ \A i \in 1..Len(attempts) : attempts[i].outcome = "raised") =>
        /\ rcall.pc = "raised"
        /\ Len(attempts) = Len(rcall.available)
        /\ rcall.error = AllFailedError(attempts[Len(attempts)].error)
        /\ rcall.result = NoResult

\* A call whose candidates all failed, the first with another error than the last.
C5_Witness ==
    /\ rcall.pc = "raised"
    /\ Len(attempts) >= 2
    /\ \A i \in 1..Len(attempts) : attempts[i].outcome = "raised"
    /\ attempts[1].error.msg # attempts[Len(attempts)].error.msg

\* C6: every generate call that finishes ends as exactly one of: a success
\* with the output and identity of one backend, the no-backends-available
\* failure, the all-backends-failed failure; a success carries the text of the
\* backend it names, a failure carries no output.
C6_ThreeOutcomes ==
    rcall.pc \in {"returned", "raised"} =>
        \/ /\ rcall.pc = "returned"
           /\ rcall.error = NoError
           /\ rcall.result.provider \in KnownProviders
           /\ rcall.result.text = Returned(rcall.result.provider, DirectRequest).text
           /\ Cardinality({i \in 1..Len(attempts) : attempts[i].outcome = "ok"}) = 1
        \/ /\ rcall.pc = "raised"
           /\ rcall.error = NoProvidersError
           /\ rcall.result = NoResult
        \/ /\ rcall.pc = "raised"
           /\ attempts # <<>>
           /\ rcall.error = AllFailedError(attempts[Len(attempts)].error)
           /\ rcall.result = NoResult

\* A generate call that ended with the KeyError of the candidate listing.
C6_EndsWithKeyError == rcall.pc = "raised" /\ rcall.error.kind = "KeyError"

-----------------------------------------------------------------------------
(* Claims about the router's construction (SpecCtor) *)

\* The chain string the construction reads, by the documented precedence.
ChainRead ==
    IF ctorArgs.fallback_chain.text # <<>> THEN ctorArgs.fallback_chain.text
    ELSE ctorArgs.env.AIN_FALLBACK_CHAIN.text

\* The comma-separated pieces of s, by the positions of its commas.
Pieces(s) ==
    LET commas == {i \in 1..Len(s) : s[i] = Comma}
        n      == Cardinality(commas)
        \* position of the k-th comma; 0 before the first, Len(s)+1 after the last
        at(k)  == IF k = 0 THEN 0
                  ELSE IF k = n + 1 THEN Len(s) + 1
                  ELSE CHOOSE i \in commas : Cardinality({j \in commas : j < i}) = k - 1
    IN  [k \in 1..(n + 1) |-> SubSeq(s, at(k - 1) + 1, at(k) - 1)]

\* s without the blanks before its first and after its last non-blank token.
Trimmed(s) ==
    LET solid == {i \in 1..Len(s) : s[i] # Blank} IN
    IF solid = {} THEN <<>>
    ELSE SubSeq(s, CHOOSE i \in solid : \A j \in solid : i <= j,
                   CHOOSE i \in solid : \A j \in solid : j <= i)

Identifiers(s) == [k \in 1..Len(Pieces(s)) |-> Trimmed(Pieces(s)[k])]

IsKnown(id) == \E p \in KnownProviders : id = <<p>>

\* C7: construction with a custom chain succeeds iff every comma-separated
\* identifier, trimmed, is a known backend; otherwise it raises ValueError
\* naming exactly the invalid identifiers, and no router is produced.
C7_ChainValidation ==
    (router.status # "none" /\ ChainRead # <<>>) =>
        LET ids == Identifiers(ChainRead) IN
        /\ router.status = "ok" <=> \A k \in 1..Len(ids) : IsKnown(ids[k])
        /\ router.status = "raised" =>
              /\ router.error.kind = "ValueError"
              /\ router.named = SelectSeq(ids, LAMBDA id : ~IsKnown(id))
              /\ router.priority = <<>>

\* A construction that raised for a chain of one invalid and one valid identifier.
C7_Witness ==
    /\ router.status = "raised"
    /\ router.named = << <<"invalid">> >>
    /\ Len(ChainRead) = 3
    /\ \E k \in 1..3 : ChainRead[k] \in KnownProviders

\* C8: the chain is the explicit parameter's if given, else the environment
\* override's if set, else anthropic, openai, local; it keeps the identifiers
\* in the order given and is never empty.
C8_ChainPrecedence ==
    router.status = "ok" =>
        LET param == ctorArgs.fallback_chain.text
            over  == ctorArgs.env.AIN_FALLBACK_CHAIN.text
            chain == [k \in 1..Len(router.priority) |-> <<router.priority[k]>>]
        IN  /\ router.priority # <<>>
            /\ param # <<>> => chain = Identifiers(param)
            /\ (param = <<>> /\ over # <<>>) => chain = Identifiers(over)
            /\ (param = <<>> /\ over = <<>>) =>
                  router.priority = <<"anthropic", "openai", "local">>

\* A construction given both a parameter and a different environment override.
C8_Witness ==
    /\ router.status = "ok"
    /\ ctorArgs.fallback_chain.text # <<>>
    /\ ctorArgs.env.AIN_FALLBACK_CHAIN.text # <<>>
    /\ Identifiers(ctorArgs.env.AIN_FALLBACK_CHAIN.text) # Identifiers(ctorArgs.fallback_chain.text)
    /\ \A k \in 1..Len(Identifiers(ctorArgs.env.AIN_FALLBACK_CHAIN.text)) :
          IsKnown(Identifiers(ctorArgs.env.AIN_FALLBACK_CHAIN.text)[k])

-----------------------------------------------------------------------------
(* ain_orchestrator.py: Agent *)

\* Agent.respond: the system prompt built around the framing, with the shared
\* context appended when there is one.
system_prompt(agent) ==
    <<"You are participating in a multi-perspective committee deliberation. Your specific lens/framing: ",
      agent.framing, " Respond to the question ONLY from this perspective.">>
    \o (IF agent.context # "" THEN <<"Relevant context:", agent.context>> ELSE <<>>)

\* The request respond makes of the router.
agent_request(agent, question) == [prompt |-> <<question>>, system |-> system_prompt(agent)]

\* f"[Error from {self.name}: {str(e)}]"
placeholder_mutant_no_name(agent, e) == <<"[Error: ">> \o e.msg \o <<"]">>

placeholder(agent, e) == <<"[Error from ", agent.name, ": ">> \o e.msg \o <<"]">>

\* How respond ends once its router call has: with the response, or, in the
\* except branch, with the placeholder.  Without the try/except the error of
\* the router call leaves respond.
respond_mutant_propagate(agent, frame) ==
    IF frame.pc = "returned"
    THEN [raised |-> FALSE, value |-> frame.result.text, error |-> NoError]
    ELSE [raised |-> TRUE, value |-> <<>>, error |-> frame.error]

respond_end(agent, frame) ==
    IF frame.pc = "returned"
    THEN [raised |-> FALSE, value |-> frame.result.text, error |-> NoError]
    ELSE [raised |-> FALSE, value |-> placeholder(agent, frame.error), error |-> NoError]

\* The task asyncio.gather made of one respond coroutine.
CreatedTask == [pc |-> "created", frame |-> IdleCall, result |-> <<>>, error |-> NoError]

\* The task after its router call ran up to `frame`.
TaskAt(agent, frame) ==
    IF frame.pc = "awaiting"
    THEN [pc |-> "awaiting", frame |-> frame, result |-> <<>>, error |-> NoError]
    ELSE LET r == respond_end(agent, frame) IN
         [pc |-> IF r.raised THEN "raised" ELSE "returned",
          frame |-> frame, result |-> r.value, error |-> r.error]

-----------------------------------------------------------------------------
(* ain_orchestrator.py: CommitteeOrchestrator *)

\* d.setdefault(name, value): the first value of a name is kept.
DictSet_mutant_keep_first(d, name, value) ==
    IF \E i \in 1..Len(d) : d[i].name = name THEN d ELSE Append(d, value)

\* d[name] = value, for a dict held as its items in insertion order.
DictSet(d, name, value) ==
    IF \E i \in 1..Len(d) : d[i].name = name
    THEN [i \in 1..Len(d) |-> IF d[i].name = name THEN value ELSE d[i]]
    ELSE Append(d, value)

\* A mapping that pairs the agents with the responses taken from the other end.
RECURSIVE build_agent_responses_mutant_reversed(_, _, _)
build_agent_responses_mutant_reversed(ags, resps, n) ==
    IF n = 0 THEN <<>>
    ELSE DictSet(build_agent_responses_mutant_reversed(ags, resps, n - 1), ags[n].name,
                 [name |-> ags[n].name, framing |-> ags[n].framing,
                  response |-> resps[Len(resps) + 1 - n]])

\* {agents[i].name: {"framing": agents[i].framing, "response": responses[i]}
\*  for i in range(len(agents))}, up to i = n - 1
RECURSIVE build_agent_responses(_, _, _)
build_agent_responses(ags, resps, n) ==
    IF n = 0 THEN <<>>
    ELSE DictSet(build_agent_responses(ags, resps, n - 1), ags[n].name,
                 [name |-> ags[n].name, framing |-> ags[n].framing, response |-> resps[n]])

\* A responses_text that leaves out the agents whose response is a failure
\* placeholder.
RECURSIVE responses_text_mutant_skip_errors(_)
responses_text_mutant_skip_errors(d) ==
    IF d = <<>> THEN <<>>
    ELSE (IF Head(d).response # <<>> /\ Head(d).response[1] = "[Error from "
          THEN <<>>
          ELSE <<"## ", Head(d).name, " (", Head(d).framing, ")">> \o Head(d).response)
         \o responses_text_mutant_skip_errors(Tail(d))

\* for name, data in responses.items(): responses_text += ...
RECURSIVE responses_text(_)
responses_text(d) ==
    IF d = <<>> THEN <<>>
    ELSE <<"## ", Head(d).name, " (", Head(d).framing, ")">> \o Head(d).response
         \o responses_text(Tail(d))

build_synthesis_prompt(question, d) ==
    <<"You are synthesizing a multi-perspective committee deliberation. ORIGINAL QUESTION:",
      question, "AGENT RESPONSES:">>
    \o responses_text(d)
    \o <<"Your task: Generate a dialectical synthesis">>

\* The request _synthesize makes of the router (no system prompt).
synthesis_request(prompt) == [prompt |-> prompt, system |-> <<>>]

\* A session that records the display name of the backend.
build_session_mutant_display_name(call, d, synthesis, provider) ==
    [timestamp |-> "now", question |-> call.question, framings |-> call.framings,
     responses |-> d, synthesis |-> synthesis, elapsed_seconds |-> "elapsed",
     provider_used |-> ProviderName(provider)]

build_session(call, d, synthesis, provider) ==
    [timestamp |-> "now", question |-> call.question, framings |-> call.framings,
     responses |-> d, synthesis |-> synthesis, elapsed_seconds |-> "elapsed",
     provider_used |-> provider]

\* The write without the newline.
log_line_mutant_no_newline(s) == [json |-> s, newline |-> FALSE]

\* json.dumps(session) + "\n": the text of one write, a JSON document and
\* whether a newline ends it.
log_line(s) == [json |-> s, newline |-> TRUE]

\* Mode 'w' instead of 'a': the file is truncated when opened.
log_session_mutant_truncate(log, s) == <<log_line(s)>>

\* The text written at the start of the file instead of its end.
log_session_mutant_prepend(log, s) == <<log_line(s)>> \o log

\* _log_session: with open(AIN_LOG, 'a') as f: f.write(...).  The file is
\* opened for appending and the text handed over in one write.
log_session(log, s) == Append(log, log_line(s))

-----------------------------------------------------------------------------
(* The state machine of one deliberation on the module's router: Spec *)

\* The framings a caller may put in a list: two names, the first of them with
\* two different instructions.
FramingPool ==
    {[name |-> "A", framing |-> "lens A"], [name |-> "B", framing |-> "lens B"],
     [name |-> "A", framing |-> "other lens A"]}

FramingLists == UNION {[1..n -> FramingPool] : n \in 0..MaxAgents}

Contexts == {"", "shared context"}

\* The environments the module is loaded in.
Environments ==
    [AIN_PROVIDER : {None, "bogus"},
     AIN_FALLBACK_CHAIN : {NoString, Str(<<"openai">>)},
     keys : SUBSET HostedProviders]

\* PROVIDER_PREFERENCE = os.environ.get("AIN_PROVIDER", "auto")
\* router = AINProviderRouter(preference=PROVIDER_PREFERENCE)
module_router(env) ==
    AINProviderRouter(IF env.AIN_PROVIDER # None THEN env.AIN_PROVIDER ELSE "auto",
                      NoString, env)

ModuleRouters == {r \in {module_router(env) : env \in Environments} : r.status = "ok"}

Init ==
    /\ ctorArgs = NoArgs
    /\ router \in ModuleRouters
    /\ rcall = IdleCall
    /\ attempts = <<>>
    /\ NoDeliberation
    /\ NoMain
    /\ NoPractices

\* deliberate(question, framings, context, verbose) up to "await asyncio.gather(...)":
\* the providers are listed, the agents created and their tasks made.
\* The framings without those whose name an earlier one carries.
RECURSIVE FirstOfEachName(_, _)
FirstOfEachName(framings, n) ==
    IF n = 0 THEN <<>>
    ELSE IF \E j \in 1..(n - 1) : framings[j].name = framings[n].name
    THEN FirstOfEachName(framings, n - 1)
    ELSE Append(FirstOfEachName(framings, n - 1), framings[n])

\* A fan-out by name: one agent per distinct name of the framings.
deliberate_mutant_agent_per_name(question, framings, context, verbose) ==
    /\ dargs' = [question |-> question, framings |-> framings, context |-> context,
                 verbose |-> verbose]
    /\ LET l == get_available_providers(router)
           named == FirstOfEachName(framings, Len(framings))
       IN
       IF ~l.ok
       THEN /\ dpc' = "raised"
            /\ derror' = l.error
            /\ UNCHANGED <<agents, tasks>>
       ELSE /\ dpc' = "gather"
            /\ agents' = [i \in 1..Len(named) |->
                            [name |-> named[i].name, framing |-> named[i].framing,
                             context |-> context]]
            /\ tasks' = [i \in 1..Len(named) |-> CreatedTask]
            /\ UNCHANGED derror
    /\ UNCHANGED <<responses, agent_responses, synthesis_prompt, scall, session, ain_log,
                   returned_sessions>>

deliberate(question, framings, context, verbose) ==
    /\ dargs' = [question |-> question, framings |-> framings, context |-> context,
                 verbose |-> verbose]
    /\ LET l == get_available_providers(router) IN
       IF ~l.ok
       THEN /\ dpc' = "raised"
            /\ derror' = l.error
            /\ UNCHANGED <<agents, tasks>>
       ELSE /\ dpc' = "gather"
            /\ agents' = [i \in 1..Len(framings) |->
                            [name |-> framings[i].name, framing |-> framings[i].framing,
                             context |-> context]]
            /\ tasks' = [i \in 1..Len(framings) |-> CreatedTask]
            /\ UNCHANGED derror
    /\ UNCHANGED <<responses, agent_responses, synthesis_prompt, scall, session, ain_log,
                   returned_sessions>>

\* A caller in the process calls deliberate.
Deliberate ==
    /\ dpc = "idle"
    /\ \E framings \in FramingLists, context \in Contexts : deliberate("Q", framings, context, FALSE)
    /\ UNCHANGED <<ctorArgs, router, rcall, attempts, mainVars, practiceVars>>

\* A pipeline instead of a fork: the respond of agent i is started only once
\* the one before it has returned.
AgentStart_mutant_pipeline(i) ==
    /\ dpc = "gather"
    /\ tasks[i].pc = "created"
    /\ i > 1 => tasks[i - 1].pc = "returned"
    /\ tasks' = [tasks EXCEPT ![i] =
                    TaskAt(agents[i], generate_begin(router, agent_request(agents[i], dargs.question)))]
    /\ UNCHANGED <<ctorArgs, router, rcall, attempts, dpc, dargs, agents, responses,
                   agent_responses, synthesis_prompt, scall, session, derror, ain_log,
                   returned_sessions, mainVars, practiceVars>>

\* The task of agent i runs respond from its start to its first await.
AgentStart(i) ==
    /\ dpc = "gather"
    /\ tasks[i].pc = "created"
    /\ tasks' = [tasks EXCEPT ![i] =
                    TaskAt(agents[i], generate_begin(router, agent_request(agents[i], dargs.question)))]
    /\ UNCHANGED <<ctorArgs, router, rcall, attempts, dpc, dargs, agents, responses,
                   agent_responses, synthesis_prompt, scall, session, derror, ain_log,
                   returned_sessions, mainVars, practiceVars>>

\* A respond that stores its own result in the response mapping when it ends.
AgentProviderEnds_mutant_writes_slot(i, outcome) ==
    /\ dpc = "gather"
    /\ tasks[i].pc = "awaiting"
    /\ tasks' = [tasks EXCEPT ![i] = TaskAt(agents[i], generate_resume(tasks[i].frame, outcome))]
    /\ agent_responses' =
          IF tasks'[i].pc = "returned"
          THEN DictSet(agent_responses, agents[i].name,
                       [name |-> agents[i].name, framing |-> agents[i].framing,
                        response |-> tasks'[i].result])
          ELSE agent_responses
    /\ UNCHANGED <<ctorArgs, router, rcall, attempts, dpc, dargs, agents, responses,
                   synthesis_prompt, scall, session, derror, ain_log,
                   returned_sessions, mainVars, practiceVars>>

\* The provider.generate agent i awaits ends with `outcome`; the task runs on.
\* A router that demotes a backend once a call to it has ended: it drops
\* the backend from its chain, for every later call.
AgentProviderEnds_mutant_demotes(i, outcome) ==
    /\ dpc = "gather"
    /\ tasks[i].pc = "awaiting"
    /\ tasks' = [tasks EXCEPT ![i] = TaskAt(agents[i], generate_resume(tasks[i].frame, outcome))]
    /\ router' = [router EXCEPT !.priority =
                     SelectSeq(router.priority, LAMBDA p : p # Awaited(tasks[i].frame))]
    /\ UNCHANGED <<ctorArgs, rcall, attempts, dpc, dargs, agents, responses,
                   agent_responses, synthesis_prompt, scall, session, derror, ain_log,
                   returned_sessions, mainVars, practiceVars>>

AgentProviderEnds(i, outcome) ==
    /\ dpc = "gather"
    /\ tasks[i].pc = "awaiting"
    /\ tasks' = [tasks EXCEPT ![i] = TaskAt(agents[i], generate_resume(tasks[i].frame, outcome))]
    /\ UNCHANGED <<ctorArgs, router, rcall, attempts, dpc, dargs, agents, responses,
                   agent_responses, synthesis_prompt, scall, session, derror, ain_log,
                   returned_sessions, mainVars, practiceVars>>

AgentProviderReturns(i) ==
    /\ tasks[i].pc = "awaiting"
    /\ AgentProviderEnds(i, Returned(Awaited(tasks[i].frame), tasks[i].frame.request))

AgentProviderUnavailable(i) ==
    /\ tasks[i].pc = "awaiting"
    /\ AgentProviderEnds(i, Unavailable(Awaited(tasks[i].frame)))

AgentProviderFails(i) ==
    /\ tasks[i].pc = "awaiting"
    /\ AgentProviderEnds(i, Failed(Awaited(tasks[i].frame)))

\* A wait with a timeout: deliberate goes on with the tasks that are done.
GatherDone_mutant_timeout == TRUE

\* A wait for the first completed task instead of all of them.
GatherDone_mutant_first_completed ==
    \E i \in 1..Len(tasks) : tasks[i].pc \in {"returned", "raised"}

\* asyncio.gather is done: with the results once every task has returned, or
\* with the exception of a task that raised.
GatherDone ==
    (\A i \in 1..Len(tasks) : tasks[i].pc = "returned") \/ (\E i \in 1..Len(tasks) : tasks[i].pc = "raised")

\* deliberate from the return of gather to the first await of _synthesize:
\* the response dict and the synthesis prompt are built, router.generate is
\* called.
FanIn ==
    /\ dpc = "gather"
    /\ GatherDone
    /\ IF \E i \in 1..Len(tasks) : tasks[i].pc = "raised"
       THEN /\ dpc' = "raised"
            /\ derror' = tasks[CHOOSE i \in 1..Len(tasks) : tasks[i].pc = "raised"].error
            /\ UNCHANGED <<responses, agent_responses, synthesis_prompt, scall, stdout>>
       ELSE /\ responses' = [i \in 1..Len(tasks) |-> tasks[i].result]
            /\ agent_responses' = build_agent_responses(agents, responses', Len(agents))
            /\ synthesis_prompt' = build_synthesis_prompt(dargs.question, agent_responses')
            /\ scall' = generate_begin(router, synthesis_request(synthesis_prompt'))
            /\ stdout' = stdout \o generate_begin_prints(dargs.verbose, scall')
            /\ dpc' = IF scall'.pc = "raised" THEN "raised" ELSE "synth"
            /\ derror' = scall'.error
    /\ UNCHANGED <<ctorArgs, router, rcall, attempts, dargs, agents, tasks, session, ain_log,
                   returned_sessions, mpc, args, exit_status, document, practiceVars>>

\* A _synthesize that calls the router again when its call fails.
SynthProviderEnds_mutant_retry(outcome) ==
    /\ dpc = "synth"
    /\ scall.pc = "awaiting"
    /\ LET f == generate_resume(scall, outcome) IN
       scall' = IF f.pc = "raised" THEN generate_begin(router, scall.request) ELSE f
    /\ IF scall'.pc = "returned"
       THEN /\ session' = build_session(dargs, agent_responses, scall'.result.text,
                                        scall'.result.provider)
            /\ ain_log' = log_session(ain_log, session')
            /\ returned_sessions' = Append(returned_sessions, session')
            /\ dpc' = "done"
       ELSE UNCHANGED <<dpc, session, ain_log, returned_sessions>>
    /\ UNCHANGED <<ctorArgs, router, rcall, attempts, dargs, agents, tasks, responses,
                   agent_responses, synthesis_prompt, derror, mainVars, practiceVars>>

\* The provider.generate _synthesize's router call awaits ends with `outcome`;
\* deliberate runs on: to the next await, to its return (the session logged),
\* or to the raise of the router's error.
\* A deliberate that isolates the failure of the synthesis as respond does
\* the failure of an agent: the session is built around a placeholder, logged
\* and returned.
SynthProviderEnds_mutant_isolates(outcome) ==
    /\ dpc = "synth"
    /\ scall.pc = "awaiting"
    /\ scall' = generate_resume(scall, outcome)
    /\ stdout' = stdout \o generate_resume_prints(dargs.verbose, scall, outcome)
    /\ CASE scall'.pc = "returned" ->
              /\ session' = build_session(dargs, agent_responses, scall'.result.text,
                                          scall'.result.provider)
              /\ ain_log' = log_session(ain_log, session')
              /\ returned_sessions' = Append(returned_sessions, session')
              /\ dpc' = "done"
              /\ UNCHANGED derror
         [] scall'.pc = "raised" ->
              /\ session' = build_session(dargs, agent_responses,
                                          <<"[Error from synthesis: ">> \o scall'.error.msg
                                              \o <<"]">>,
                                          "none")
              /\ ain_log' = log_session(ain_log, session')
              /\ returned_sessions' = Append(returned_sessions, session')
              /\ dpc' = "done"
              /\ UNCHANGED derror
         [] OTHER -> UNCHANGED <<dpc, derror, session, ain_log, returned_sessions>>
    /\ UNCHANGED <<ctorArgs, router, rcall, attempts, dargs, agents, tasks, responses,
                   agent_responses, synthesis_prompt, mpc, args, exit_status, document, practiceVars>>

SynthProviderEnds(outcome) ==
    /\ dpc = "synth"
    /\ scall.pc = "awaiting"
    /\ scall' = generate_resume(scall, outcome)
    /\ stdout' = stdout \o generate_resume_prints(dargs.verbose, scall, outcome)
    /\ CASE scall'.pc = "returned" ->
              /\ session' = build_session(dargs, agent_responses, scall'.result.text,
                                          scall'.result.provider)
              /\ ain_log' = log_session(ain_log, session')
              /\ returned_sessions' = Append(returned_sessions, session')
              /\ dpc' = "done"
              /\ UNCHANGED derror
         [] scall'.pc = "raised" ->
              /\ dpc' = "raised"
              /\ derror' = scall'.error
              /\ UNCHANGED <<session, ain_log, returned_sessions>>
         [] OTHER -> UNCHANGED <<dpc, derror, session, ain_log, returned_sessions>>
    /\ UNCHANGED <<ctorArgs, router, rcall, attempts, dargs, agents, tasks, responses,
                   agent_responses, synthesis_prompt, mpc, args, exit_status, document, practiceVars>>

SynthProviderReturns ==
    scall.pc = "awaiting" /\ SynthProviderEnds(Returned(Awaited(scall), scall.request))

SynthProviderUnavailable ==
    scall.pc = "awaiting" /\ SynthProviderEnds(Unavailable(Awaited(scall)))

SynthProviderFails ==
    scall.pc = "awaiting" /\ SynthProviderEnds(Failed(Awaited(scall)))

Next ==
    \/ Deliberate
    \/ \E i \in 1..Len(tasks) : AgentStart(i)
    \/ \E i \in 1..Len(tasks) : AgentProviderReturns(i)
    \/ \E i \in 1..Len(tasks) : AgentProviderUnavailable(i)
    \/ \E i \in 1..Len(tasks) : AgentProviderFails(i)
    \/ FanIn
    \/ SynthProviderReturns
    \/ SynthProviderUnavailable
    \/ SynthProviderFails

Spec == Init /\ [][Next]_vars

\* The event loop keeps running its ready tasks, and every awaited
\* provider.generate ends: no step that can be taken is put off forever.
FairSpec == Spec /\ WF_vars(Next)

-----------------------------------------------------------------------------
(* The state machine of the session log: SpecLog.  Deliberations follow one *)
(* another in the process, while other processes that run the same program  *)
(* append the sessions of their own deliberations to the same file.         *)

LogQuestions == {"Q1", "Q2"}

LogFramingLists == {<<>>, <<[name |-> "A", framing |-> "lens A"]>>}

LogEnvironments ==
    [AIN_PROVIDER : {None, "bogus"},
     AIN_FALLBACK_CHAIN : {Str(<<"openai">>)},
     keys : {{}, {"openai"}}]

LogRouters == {r \in {module_router(env) : env \in LogEnvironments} : r.status = "ok"}

\* The sessions deliberations of other processes return.
OtherSessions ==
    {build_session([question |-> "other question", framings |-> <<>>, context |-> "",
                    verbose |-> FALSE],
                   <<>>, <<"text of ", "local", " for ", "other question">>, "local")}

InitLog ==
    /\ ctorArgs = NoArgs
    /\ router \in LogRouters
    /\ rcall = IdleCall
    /\ attempts = <<>>
    /\ NoDeliberation
    /\ NoMain
    /\ NoPractices

\* A caller in the process calls deliberate, unless the log is full.
DeliberateLogged ==
    /\ dpc = "idle"
    /\ Len(ain_log) < MaxSessions
    /\ \E question \in LogQuestions, framings \in LogFramingLists :
          deliberate(question, framings, "", FALSE)
    /\ UNCHANGED <<ctorArgs, router, rcall, attempts, mainVars, practiceVars>>

\* The deliberate call is over (it returned its session or raised): its frame
\* is gone, and the caller may call again.
DeliberateEnds ==
    /\ dpc \in {"done", "raised"}
    /\ dpc' = "idle"
    /\ dargs' = NoDelibArgs
    /\ agents' = <<>>
    /\ tasks' = <<>>
    /\ responses' = <<>>
    /\ agent_responses' = <<>>
    /\ synthesis_prompt' = <<>>
    /\ scall' = IdleCall
    /\ session' = NoSession
    /\ derror' = NoError
    /\ UNCHANGED <<ctorArgs, router, rcall, attempts, ain_log, returned_sessions, mainVars, practiceVars>>

\* A deliberation of another process returns: its _log_session has appended
\* its session to the file.
OtherAppend ==
    /\ Len(ain_log) < MaxSessions
    /\ \E s \in OtherSessions :
          /\ ain_log' = log_session(ain_log, s)
          /\ returned_sessions' = Append(returned_sessions, s)
    /\ UNCHANGED <<ctorArgs, router, rcall, attempts, dpc, dargs, agents, tasks, responses,
                   agent_responses, synthesis_prompt, scall, session, derror, mainVars, practiceVars>>

NextLog ==
    \/ DeliberateLogged
    \/ \E i \in 1..Len(tasks) : AgentStart(i)
    \/ \E i \in 1..Len(tasks) : AgentProviderReturns(i)
    \/ \E i \in 1..Len(tasks) : AgentProviderUnavailable(i)
    \/ \E i \in 1..Len(tasks) : AgentProviderFails(i)
    \/ FanIn
    \/ SynthProviderReturns
    \/ SynthProviderUnavailable
    \/ SynthProviderFails
    \/ DeliberateEnds
    \/ OtherAppend

SpecLog == InitLog /\ [][NextLog]_vars

-----------------------------------------------------------------------------
(* ain_orchestrator.py: main and the __main__ block *)

\* {"ok": True, **result}
_result_envelope_ok(result) ==
    [k \in {"ok"} \cup DOMAIN result |-> IF k \in DOMAIN result THEN result[k] ELSE TRUE]

\* The error envelope; the trace is traceback.format_exc(limit=8).
_result_envelope_err(stage, err) ==
    [ok |-> FALSE, stage |-> stage, error |-> err.msg, error_type |-> err.kind,
     traceback |-> "traceback, 8 frames at most"]

\* print(json.dumps(obj, ...)): one JSON document on standard output.
_emit_json(out, obj, pretty) == Append(out, [kind |-> "json", pretty |-> pretty, obj |-> obj])

\* _print_human_readable: the result as text on standard output.
_print_human_readable(out, result) ==
    Append(out, [kind |-> "text", pretty |-> FALSE, obj |-> result])

\* The committee of main's deliberate command and the lenses of review_writing:
\* five framings each in the code, of which the model keeps the first MaxAgents.
DefaultFramings ==
    <<[name |-> "First Principles", framing |-> "Analyze from first principles."],
      [name |-> "Systems Thinking", framing |-> "Analyze as a systems thinker."],
      [name |-> "Practical Engineering", framing |-> "Analyze from practical engineering perspective."],
      [name |-> "User Experience", framing |-> "Analyze from user experience perspective."],
      [name |-> "Strategic Vision", framing |-> "Analyze from strategic vision perspective."]>>

ReviewFramings ==
    <<[name |-> "Technical Accuracy", framing |-> "Review for technical accuracy."],
      [name |-> "Voice & Style", framing |-> "Review for voice consistency and style."],
      [name |-> "Audience Resonance", framing |-> "Review from the reader's perspective."],
      [name |-> "Structure & Flow", framing |-> "Review the structure and flow."],
      [name |-> "Depth & Impact", framing |-> "Review for intellectual depth."]>>

Committee(framings) ==
    SubSeq(framings, 1, IF MaxAgents < Len(framings) THEN MaxAgents ELSE Len(framings))

\* The config files of custom-deliberate: none, one that cannot be opened or
\* parsed, one whose JSON is not an object, and objects with and without the
\* keys main reads.
ConfigFiles ==
    {[state |-> "missing", value |-> <<>>],
     [state |-> "malformed", value |-> <<>>],
     [state |-> "list", value |-> <<>>],
     [state |-> "object", value |-> [other |-> "x"]],
     [state |-> "object",
      value |-> [framings |-> <<[name |-> "A", framing |-> "lens A"]>>,
                 context |-> "shared context"]]}

\* config.get(key, default)
ConfigGet(config, key, default) == IF key \in DOMAIN config THEN config[key] ELSE default

\* The documents of review-writing.
ReviewFiles == {"missing", "unreadable", "document"}

\* The truncation budget of review_writing, in characters.
TruncationBudget == 3000

\* '...', a string of three characters
Marker == <<".", ".", ".">>

\* s[:n]
Take(s, n) == SubSeq(s, 1, IF Len(s) < n THEN Len(s) ELSE n)

\* A truncation that marks a document of exactly the budget as truncated.
excerpt_mutant_inclusive(content) ==
    Take(content, TruncationBudget)
    \o (IF Len(content) >= TruncationBudget THEN Marker ELSE <<>>)

\* {content[:3000]}{'...' if len(content) > 3000 else ''}
excerpt(content) ==
    Take(content, TruncationBudget)
    \o (IF Len(content) > TruncationBudget THEN Marker ELSE <<>>)

\* The question of review_writing: a string, as the sequence of its fixed
\* parts and of the characters it embeds.
review_question(content) ==
    <<"Review this piece of writing:", "---">>
    \o excerpt(content)
    \o <<"---", "Provide specific, actionable feedback from your lens.",
         "Quote specific passages when giving feedback.">>

\* What f.read() returns of the file a command line names.
FileContent(file) == IF file = "document" THEN <<"w", "o", "r", "d", "s">> ELSE <<>>

MainReturn(result) == [kind |-> "return", result |-> result]
MainRaise(e) == [kind |-> "raise", error |-> e]
MainDeliberate(question, framings, context, verbose) ==
    [kind |-> "deliberate", question |-> question, framings |-> framings, context |-> context,
     verbose |-> verbose]

\* A review_writing without the guard on the read: a file that does not
\* exist is reviewed as an empty document.
main_mutant_no_guard(a) ==
    CASE a.command = "deliberate" ->
            MainDeliberate("Q", Committee(DefaultFramings), "", a.verbose)
      [] a.command = "review-writing" ->
            IF a.file = "unreadable"
            THEN MainRaise(Exc("PermissionError", <<"[Errno 13] Permission denied: ", a.file>>))
            ELSE MainDeliberate(review_question(FileContent(a.file)),
                                Committee(ReviewFramings), "", a.verbose)
      [] a.command = "custom-deliberate" ->
            IF a.config.state \in {"missing", "malformed"}
            THEN MainReturn([error |-> <<"Config load failed: ", a.config.state>>])
            ELSE IF a.config.state = "list"
            THEN MainRaise(Exc("AttributeError", <<"'list' object has no attribute 'get'">>))
            ELSE MainDeliberate("Q", ConfigGet(a.config.value, "framings", <<>>),
                                ConfigGet(a.config.value, "context", ""), a.verbose)

\* main(args) up to its call of deliberate: what it does instead of the call,
\* or the arguments of the call.
main(a) ==
    CASE a.command = "deliberate" ->
            MainDeliberate("Q", Committee(DefaultFramings), "", a.verbose)
      [] a.command = "review-writing" ->
            IF a.file = "missing"
            THEN MainReturn([error |-> <<"File not found">>])
            ELSE IF a.file = "unreadable"
            THEN MainRaise(Exc("PermissionError", <<"[Errno 13] Permission denied: ", a.file>>))
            ELSE MainDeliberate(review_question(FileContent(a.file)),
                                Committee(ReviewFramings), "", a.verbose)
      [] a.command = "custom-deliberate" ->
            IF a.config.state \in {"missing", "malformed"}
            THEN MainReturn([error |-> <<"Config load failed: ", a.config.state>>])
            ELSE IF a.config.state = "list"
            THEN MainRaise(Exc("AttributeError", <<"'list' object has no attribute 'get'">>))
            ELSE MainDeliberate("Q", ConfigGet(a.config.value, "framings", <<>>),
                                ConfigGet(a.config.value, "context", ""), a.verbose)

-----------------------------------------------------------------------------
(* The state machine of one top-level invocation: SpecMain *)

MainEnvironments ==
    [AIN_PROVIDER : {None, "bogus"},
     AIN_FALLBACK_CHAIN : {NoString, Str(<<"invalid">>)},
     keys : {{}, {"openai"}}]

\* The command lines: the subcommand, its flags, and the file it names.
CommandLines ==
    {a \in [command : {"deliberate", "review-writing", "custom-deliberate"},
            json : BOOLEAN, json_pretty : BOOLEAN, verbose : BOOLEAN,
            file : ReviewFiles \cup {None}, config : ConfigFiles \cup {NoConfig}] :
        /\ (a.command = "review-writing") <=> (a.file # None)
        /\ (a.command = "custom-deliberate") <=> (a.config # NoConfig)}

\* if hasattr(args, "json_pretty") and args.json_pretty: args.json = True
parse_args(a) == [a EXCEPT !.json = a.json \/ a.json_pretty]

InitMain ==
    /\ ctorArgs = NoArgs
    /\ router = NoRouter
    /\ rcall = IdleCall
    /\ attempts = <<>>
    /\ NoDeliberation
    /\ NoMain
    /\ NoPractices

\* The process is started with a command line in an environment and the module
\* loaded: its statements run, the router is constructed.  An exception of
\* these statements is caught by nothing: the interpreter prints its traceback
\* on standard error and exits with status 1.
Load ==
    /\ mpc = "none"
    /\ \E env \in MainEnvironments, a \in CommandLines :
          /\ ctorArgs' = [preference |-> IF env.AIN_PROVIDER # None THEN env.AIN_PROVIDER
                                         ELSE "auto",
                          fallback_chain |-> NoString, env |-> env]
          /\ router' = module_router(env)
          /\ args' = a
    /\ IF router'.status = "raised"
       THEN mpc' = "exited" /\ exit_status' = 1
       ELSE mpc' = "loaded" /\ UNCHANGED exit_status
    /\ UNCHANGED <<rcall, attempts, delibVars, stdout, document, practiceVars>>

\* The __main__ block from parse_args to the first await of main: the command
\* line is parsed and main run, up to the gather of deliberate when it calls it.
RunMain ==
    /\ mpc = "loaded"
    /\ args' = parse_args(args)
    /\ mpc' = "running"
    /\ LET m == main(args') IN
       IF m.kind = "deliberate"
       THEN deliberate(m.question, m.framings, m.context, m.verbose)
       ELSE UNCHANGED delibVars
    /\ document' = IF args'.command = "review-writing" THEN FileContent(args'.file)
                    ELSE document
    /\ UNCHANGED <<ctorArgs, router, rcall, attempts, stdout, exit_status, practiceVars>>

\* main is over without a deliberation under way.
MainReturned ==
    dpc = "done" \/ (dpc = "idle" /\ main(args).kind = "return")

MainRaised ==
    dpc = "raised" \/ (dpc = "idle" /\ main(args).kind = "raise")

\* asyncio.run(main(args)) returns main's result: it is put out, as the ok
\* envelope or as text, and the process exits with status 0.
MainReturns ==
    /\ mpc = "running"
    /\ MainReturned
    /\ LET result == IF dpc = "done" THEN session ELSE main(args).result IN
       stdout' = IF args.json
                 THEN _emit_json(stdout, _result_envelope_ok(result), args.json_pretty)
                 ELSE _print_human_readable(stdout, result)
    /\ exit_status' = 0
    /\ mpc' = "exited"
    /\ UNCHANGED <<ctorArgs, router, rcall, attempts, delibVars, args, document, practiceVars>>

\* asyncio.run(main(args)) raises main's exception: the except branch puts out
\* the error envelope in JSON mode, and the process exits with status 1.
MainRaises ==
    /\ mpc = "running"
    /\ MainRaised
    /\ LET e == IF dpc = "raised" THEN derror ELSE main(args).error IN
       stdout' = IF args.json
                 THEN _emit_json(stdout, _result_envelope_err("main", e), args.json_pretty)
                 ELSE stdout
    /\ exit_status' = 1
    /\ mpc' = "exited"
    /\ UNCHANGED <<ctorArgs, router, rcall, attempts, delibVars, args, document, practiceVars>>

NextMain ==
    \/ Load
    \/ RunMain
    \/ \E i \in 1..Len(tasks) : AgentStart(i)
    \/ \E i \in 1..Len(tasks) : AgentProviderReturns(i)
    \/ \E i \in 1..Len(tasks) : AgentProviderUnavailable(i)
    \/ \E i \in 1..Len(tasks) : AgentProviderFails(i)
    \/ FanIn
    \/ SynthProviderReturns
    \/ SynthProviderUnavailable
    \/ SynthProviderFails
    \/ MainReturns
    \/ MainRaises

SpecMain == InitMain /\ [][NextMain]_vars

-----------------------------------------------------------------------------
(* The state machine of one document review, from the read of the document
   to the requests of the agents: SpecReview *)

\* How far from nothing and from the budget the lengths of the documents go.
MaxExtra == 12

DocumentLengths ==
    (0..MaxExtra) \cup ((TruncationBudget - MaxExtra)..(TruncationBudget + MaxExtra))

\* A document of n characters, each one its own; `dotted` ones end in the
\* three characters of the marker.
Document(n, dotted) ==
    [i \in 1..n |-> IF dotted /\ i > n - 3 THEN "." ELSE ToString(i)]

Documents == {Document(n, dotted) : n \in DocumentLengths, dotted \in BOOLEAN}

InitReview ==
    /\ ctorArgs = NoArgs
    /\ router \in LogRouters
    /\ rcall = IdleCall
    /\ attempts = <<>>
    /\ NoDeliberation
    /\ mpc = "none"
    /\ args = NoCliArgs
    /\ stdout = <<>>
    /\ exit_status = NoStatus
    /\ document \in Documents
    /\ NoPractices

\* review_writing on a file that holds `document`, up to the gather of the
\* deliberation it runs.
ReviewWriting ==
    /\ dpc = "idle"
    /\ deliberate(review_question(document), Committee(ReviewFramings), "", FALSE)
    /\ UNCHANGED <<ctorArgs, router, rcall, attempts, mainVars, practiceVars>>

NextReview ==
    \/ ReviewWriting
    \/ \E i \in 1..Len(tasks) : AgentStart(i)

SpecReview == InitReview /\ [][NextReview]_vars

-----------------------------------------------------------------------------
(* The practices service (practices_service.py): values of a JSON payload *)

\* A JSON value as payload.get(key) returns it: null (also for a missing
\* key), an integer, a boolean, a float (given in tenths), a string (its
\* characters), a float that is no number (NaN, Infinity), or a list.
JNull == [t |-> "null", n |-> 0, s |-> <<>>]
JInt(n) == [t |-> "int", n |-> n, s |-> <<>>]
JBool(b) == [t |-> "bool", n |-> IF b THEN 1 ELSE 0, s |-> <<>>]
JFloat(tenths) == [t |-> "float", n |-> tenths, s |-> <<>>]
JNaN == [t |-> "nan", n |-> 0, s |-> <<>>]
JStr(s) == [t |-> "str", n |-> 0, s |-> s]
JList == [t |-> "list", n |-> 0, s |-> <<>>]

\* A string argument that is None.
NoneText == <<None>>

\* x or y, for an optional string x.
OrElse(x, y) == IF x = NoneText \/ x = <<>> THEN y ELSE x

\* str.lower() and str.upper(), on the letters of the model.
LowerCased(c) ==
    CASE c = "A" -> "a" [] c = "E" -> "e" [] c = "F" -> "f" [] c = "H" -> "h"
      [] c = "I" -> "i" [] c = "R" -> "r" [] c = "T" -> "t" [] c = "W" -> "w"
      [] c = "X" -> "x" [] OTHER -> c

UpperCased(c) ==
    CASE c = "a" -> "A" [] c = "e" -> "E" [] c = "f" -> "F" [] c = "h" -> "H"
      [] c = "i" -> "I" [] c = "r" -> "R" [] c = "t" -> "T" [] c = "w" -> "W"
      [] c = "x" -> "X" [] OTHER -> c

lower(s) == [i \in 1..Len(s) |-> LowerCased(s[i])]

Digits == <<"0", "1", "2", "3", "4", "5", "6", "7", "8", "9">>
IsDigit(c) == \E d \in 1..Len(Digits) : Digits[d] = c
DigitValue(c) == (CHOOSE d \in 1..Len(Digits) : Digits[d] = c) - 1

\* The number a string of digits denotes.
RECURSIVE Numeral(_)
Numeral(ds) ==
    IF ds = <<>> THEN 0
    ELSE Numeral(SubSeq(ds, 1, Len(ds) - 1)) * Len(Digits) + DigitValue(ds[Len(ds)])

\* int(v): the integer, or the exception.  A float is truncated toward zero;
\* a string is read without the whitespace around it, as an optional sign and
\* decimal digits.
int(v) ==
    CASE v.t \in {"int", "bool"} -> [ok |-> TRUE, n |-> v.n]
      [] v.t = "float" ->
            [ok |-> TRUE, n |-> IF v.n >= 0 THEN v.n \div 10 ELSE -((-v.n) \div 10)]
      [] v.t = "str" ->
            LET body   == strip(v.s)
                signed == body # <<>> /\ Head(body) \in {"+", "-"}
                ds     == IF signed THEN Tail(body) ELSE body
            IN  IF ds # <<>> /\ \A i \in 1..Len(ds) : IsDigit(ds[i])
                THEN [ok |-> TRUE,
                      n |-> IF signed /\ Head(body) = "-" THEN -Numeral(ds) ELSE Numeral(ds)]
                ELSE [ok |-> FALSE, n |-> 0]
      [] OTHER -> [ok |-> FALSE, n |-> 0]

max(a, b) == IF a >= b THEN a ELSE b
min(a, b) == IF a <= b THEN a ELSE b

\* A clamp without the lower end.
clamp_int_mutant_no_floor(v, lo, hi, default) ==
    IF int(v).ok THEN min(hi, int(v).n) ELSE default

clamp_int(v, lo, hi, default) ==
    IF int(v).ok THEN max(lo, min(hi, int(v).n)) ELSE default

\* v.strip() if isinstance(v, str) else ""
normalize_str(v) == IF v.t = "str" THEN strip(v.s) ELSE <<>>

\* The names of the elements, as strings of characters.
Fire == <<"f", "i", "r", "e">>
Water == <<"w", "a", "t", "e", "r">>
Earth == <<"e", "a", "r", "t", "h">>
Air == <<"a", "i", "r">>
Aether == <<"a", "e", "t", "h", "e", "r">>

pick_element_from_facet(facet_code) ==
    IF facet_code = <<>> THEN Aether
    ELSE LET ch == UpperCased(facet_code[1]) IN
         CASE ch = "F" -> Fire [] ch = "W" -> Water [] ch = "E" -> Earth
           [] ch = "A" -> Air [] OTHER -> Aether

\* The practice library: per element its practices, title and minutes (the
\* steps and tags of a practice go with its title).
LibraryKeys == {Fire, Water, Earth, Air, Aether}

library(element) ==
    CASE element = Fire ->
            <<[title |-> "Spark List + One Brave Step", minutes |-> 10],
              [title |-> "Heat-to-Heart Breath (4-4-6)", minutes |-> 8],
              [title |-> "Boundary as Blessing", minutes |-> 12]>>
      [] element = Water ->
            <<[title |-> "Witness + Name the Feeling", minutes |-> 10],
              [title |-> "Grief Bowl (symbolic release)", minutes |-> 12],
              [title |-> "Dream Thread Capture", minutes |-> 8]>>
      [] element = Earth ->
            <<[title |-> "One Surface, One Stack", minutes |-> 15],
              [title |-> "Body Anchor Scan", minutes |-> 10],
              [title |-> "Practical Kindness Plan", minutes |-> 12]>>
      [] element = Air ->
            <<[title |-> "Thought Distillation (3 sentences)", minutes |-> 10],
              [title |-> "Two-Column Perspective Shift", minutes |-> 12],
              [title |-> "Signal-to-Noise Diet (15 min)", minutes |-> 15]>>
      [] OTHER ->
            <<[title |-> "Still Point (90 seconds)", minutes |-> 2],
              [title |-> "Symbol of the Day", minutes |-> 8],
              [title |-> "Integrity Check (3 gates)", minutes |-> 10]>>

\* candidates[:3]
MaxPractices == 3

\* build_practices; the id of a practice is random and left out.
build_practices(facet_code, element_preference, duration_min, difficulty) ==
    LET element    == strip(lower(OrElse(element_preference,
                                         pick_element_from_facet(facet_code))))
        level      == strip(lower(OrElse(difficulty, <<"e", "a", "s", "y">>)))
        candidates == Take(library(element), MaxPractices)
    IN  [k \in 1..Len(candidates) |->
            [facet_code |-> IF facet_code = <<>> THEN <<"U", "N", "K">> ELSE facet_code,
             element |-> element,
             title |-> candidates[k].title,
             duration_min |-> IF duration_min > 0
                              THEN min(candidates[k].minutes, duration_min)
                              ELSE candidates[k].minutes,
             difficulty |-> level]]

\* The bounds of the duration a request may ask for, and the duration taken
\* when it asks for none.
DurationLo == 1
DurationHi == 120
DurationDefault == 15

\* generate, from the payload to the practices of its response.
generate(p) ==
    LET facet_code         == normalize_str(p.facet_code)
        element_preference == OrElse(normalize_str(p.element_preference), NoneText)
        duration           == clamp_int(p.duration_available_min, DurationLo, DurationHi,
                                        DurationDefault)
        difficulty         == OrElse(normalize_str(p.difficulty), <<"e", "a", "s", "y">>)
    IN  build_practices(facet_code, element_preference, duration, difficulty)

-----------------------------------------------------------------------------
(* The state machine of one POST /generate: SpecPractices *)

\* The largest small duration a request asks for, and how far around
\* DurationHi the large ones go.
MaxRequested == 17
AroundHi == 2

FacetValues ==
    {JNull, JInt(5), JStr(<<>>), JStr(<<"F", "1">>), JStr(<<"w", "2">>),
     JStr(<<" ", "E", "3">>), JStr(<<"a", "1">>), JStr(<<"X", "9">>)}

ElementValues ==
    {JNull, JInt(5), JStr(<<>>), JStr(Fire), JStr(<<"F", "I", "R", "E">>),
     JStr(<<" ", "w", "a", "t", "e", "r", " ">>), JStr(Aether),
     JStr(<<"p", "l", "a", "s", "m", "a">>)}

DurationValues ==
    {JNull, JList, JNaN, JBool(TRUE), JBool(FALSE)}
    \cup {JInt(n) : n \in (-1..MaxRequested)
                          \cup ((DurationHi - AroundHi)..(DurationHi + AroundHi))}
    \cup {JFloat(t) : t \in {-15, -5, 5, 79, 125, 1199, 1205}}
    \cup {JStr(s) : s \in {<<>>, <<"2", "0">>, <<" ", "8", " ">>, <<"-", "5">>,
                           <<"7", ".", "9">>, <<"a", "b", "c">>}}

DifficultyValues == {JNull, JStr(<<"H", "a", "r", "d">>)}

Payloads ==
    [facet_code : FacetValues, element_preference : ElementValues,
     duration_available_min : DurationValues, difficulty : DifficultyValues]

InitPractices ==
    /\ ctorArgs = NoArgs
    /\ router = NoRouter
    /\ rcall = IdleCall
    /\ attempts = <<>>
    /\ NoDeliberation
    /\ NoMain
    /\ payload \in Payloads
    /\ generated = NoResponse

\* POST /generate with the payload: the handler answers.
Generated ==
    /\ generated = NoResponse
    /\ generated' = [state |-> "ok", practices |-> generate(payload)]
    /\ UNCHANGED <<ctorArgs, router, rcall, attempts, delibVars, mainVars, payload>>

NextPractices == Generated

SpecPractices == InitPractices /\ [][NextPractices]_vars

-----------------------------------------------------------------------------
(* Claims about the agents and the deliberation (Spec, FairSpec) *)

\* t occurs in s as a run of consecutive elements.
Contains(s, t) == \E k \in 0..(Len(s) - Len(t)) : SubSeq(s, k + 1, k + Len(t)) = t

\* The router call of agent i failed.
AgentCallFailed(i) == tasks[i].frame.pc = "raised"

\* gather has returned the agents' results to deliberate.
BarrierPassed == scall.pc # "idle"

\* C9: Agent.respond never propagates a failure of its router call: it
\* returns a placeholder text holding the agent's name and the failure
\* message, which the fan-in barrier receives as an ordinary response.
C9_RespondIsolatesFailure ==
    \A i \in 1..Len(tasks) :
        /\ tasks[i].pc # "raised"
        /\ AgentCallFailed(i) =>
              /\ tasks[i].pc = "returned"
              /\ tasks[i].error = NoError
              /\ Contains(tasks[i].result, <<agents[i].name>>)
              /\ Contains(tasks[i].result, tasks[i].frame.error.msg)
              /\ BarrierPassed => (Len(responses) = Len(tasks) /\ responses[i] = tasks[i].result)

\* A deliberation past the barrier with one agent whose chain of two or more
\* candidates was exhausted and another agent that got an answer.
C9_Witness ==
    /\ BarrierPassed
    /\ \E i \in 1..Len(tasks) :
          /\ AgentCallFailed(i)
          /\ Len(tasks[i].frame.available) >= 2
          /\ tasks[i].frame.error = AllFailedError(tasks[i].frame.last_error)
          /\ \E j \in 1..Len(tasks) : j # i /\ tasks[j].frame.pc = "returned"

\* The router call of agent i exhausted its whole chain.
ChainExhausted(i) ==
    /\ AgentCallFailed(i)
    /\ tasks[i].frame.available # <<>>
    /\ tasks[i].frame.idx = Len(tasks[i].frame.available)

\* The last agent of the name of agent i.
LastOfName(i) == \A j \in 1..Len(agents) : agents[j].name = agents[i].name => j <= i

C10_NotAborted ==
    \* deliberate raises only for the provider listing at its start or for
    \* the synthesis call, which is issued after every agent has returned
    /\ dpc = "raised" =>
          \/ tasks = <<>> /\ scall.pc = "idle" /\ derror.kind = "KeyError"
          \/ scall.pc = "raised" /\ derror = scall.error
    /\ BarrierPassed => \A i \in 1..Len(tasks) : tasks[i].pc = "returned"
    /\ dpc = "synth" => scall.pc = "awaiting"
    \* a completed deliberation has a synthesis and an entry for every agent
    /\ dpc = "done" =>
          /\ scall.pc = "returned"
          /\ session.synthesis = scall.result.text
          /\ ain_log = <<log_line(session)>>
          /\ \A i \in 1..Len(agents) :
                \E k \in 1..Len(session.responses) :
                    /\ session.responses[k].name = agents[i].name
                    /\ LastOfName(i) => session.responses[k].response = tasks[i].result

\* The deliberation is over: it returned its session, or the synthesis call failed.
Concluded == dpc = "done" \/ (dpc = "raised" /\ scall.pc = "raised")

-----------------------------------------------------------------------------
(* Claims about the fork-join of a deliberation (Spec) *)

\* The respond call of agent i is in flight: begun, its router call awaiting a provider.
InFlight(i) == tasks[i].pc = "awaiting"

\* C11: in a deliberation over N framings the N respond calls are all made
\* before deliberate waits on any of them, and none waits for another: each one
\* not yet begun can begin, and each one in flight can complete, whatever the
\* others have done.
C11_ForkBeforeJoin ==
    /\ dpc = "gather" => (Len(tasks) = Len(dargs.framings) /\ Len(agents) = Len(dargs.framings))
    /\ \A i \in 1..Len(tasks) :
          /\ (dpc = "gather" /\ tasks[i].pc = "created") => ENABLED AgentStart(i)
          /\ (dpc = "gather" /\ InFlight(i)) => ENABLED AgentProviderReturns(i)

\* Two or more respond calls, all of them in flight at once.
C11_Witness ==
    /\ dpc = "gather"
    /\ Len(tasks) >= 2
    /\ \A i \in 1..Len(tasks) : InFlight(i)

\* C12: within a deliberation the synthesis router call starts only after
\* every agent call has completed, and is never in flight while an agent call
\* of the deliberation is.
C12_SynthesisAfterBarrier ==
    /\ scall.pc # "idle" => \A i \in 1..Len(tasks) : tasks[i].pc = "returned"
    /\ dpc \in {"synth", "done"} => \A i \in 1..Len(tasks) : tasks[i].pc = "returned"
    /\ ~(scall.pc = "awaiting" /\ \E i \in 1..Len(tasks) : InFlight(i))

\* The synthesis call in flight after two or more agent calls, all completed.
C12_Witness ==
    /\ scall.pc = "awaiting"
    /\ Len(tasks) >= 2
    /\ \A i \in 1..Len(tasks) : tasks[i].pc = "returned"

\* The router.generate calls the deliberation has made so far.
RouterCalls ==
    Cardinality({i \in 1..Len(tasks) : tasks[i].frame.pc # "idle"})
    + (IF scall.pc # "idle" THEN 1 ELSE 0)

\* A generate call goes through its candidate list in one pass.
OnePass(frame) ==
    /\ frame.pc = "awaiting" => frame.idx \in 1..Len(frame.available)
    /\ frame.pc = "returned" =>
          /\ frame.idx \in 1..Len(frame.available)
          /\ frame.result.provider = frame.available[frame.idx]
    /\ frame.pc = "raised" =>
          IF frame.available = <<>>
          THEN frame.error = NoProvidersError /\ frame.idx = 0
          ELSE frame.error = AllFailedError(frame.last_error)
               /\ frame.idx = Len(frame.available)

\* A step leaves a call that was made the same call, one candidate further at most,
\* and a call that has ended as it ended.
SameCall(f, g) ==
    f.pc # "idle" =>
        /\ g.request = f.request
        /\ g.available = f.available
        /\ g.idx \in {f.idx, f.idx + 1}
        /\ f.pc \in {"returned", "raised"} => g = f

C13_CallsMade ==
    /\ scall.pc # "idle" =>
          /\ RouterCalls = Len(dargs.framings) + 1
          /\ scall.request = synthesis_request(synthesis_prompt)
          /\ scall.available = get_available_providers(router).list
    /\ OnePass(scall)
    /\ \A i \in 1..Len(tasks) : OnePass(tasks[i].frame)

\* C13: a deliberation that reaches the synthesis step issues exactly one
\* synthesis router call, which fails over in one pass as the agent calls do;
\* with its N agent calls that makes N + 1 router generate calls.
C13_OneSynthesisCall ==
    /\ []C13_CallsMade
    /\ [][/\ SameCall(scall, scall')
          /\ Len(tasks) > 0 => Len(tasks') = Len(tasks)
          /\ \A i \in 1..Len(tasks) : SameCall(tasks[i].frame, tasks'[i].frame)]_vars

\* A deliberation of two agents that completed on the second candidate of its
\* synthesis call.
C13_Witness ==
    /\ dpc = "done"
    /\ Len(tasks) = 2
    /\ RouterCalls = 3
    /\ scall.idx = 2

-----------------------------------------------------------------------------
(* Claims about the response mapping (Spec) *)

\* The names of the framings submitted, and the keys of the response mapping.
FramingNames == {dargs.framings[i].name : i \in 1..Len(dargs.framings)}
Keys(d) == {d[k].name : k \in 1..Len(d)}

DistinctNames == Cardinality(FramingNames) = Len(dargs.framings)

\* The response of agent i is the result of its own respond call: the text the
\* provider returned for the request made with the agent's framing, or the
\* agent's placeholder.
OwnResponse(i, response) ==
    /\ response = tasks[i].result
    /\ tasks[i].frame.request = agent_request(agents[i], dargs.question)
    /\ IF tasks[i].frame.pc = "returned"
       THEN response = Returned(Awaited(tasks[i].frame), tasks[i].frame.request).text
            /\ Contains(response, <<dargs.framings[i].framing>>)
       ELSE response = placeholder(agents[i], tasks[i].frame.error)

\* C14: when the framings have pairwise distinct names, the keys of the
\* response mapping are exactly the framing names, and the entry of each name
\* carries the framing text submitted under it and the result of that agent's
\* own respond call.
C14_ResponseMapping ==
    (BarrierPassed /\ DistinctNames) =>
        /\ Keys(agent_responses) = FramingNames
        /\ Len(agent_responses) = Len(dargs.framings)
        /\ \A i \in 1..Len(dargs.framings) :
              \E k \in 1..Len(agent_responses) :
                  /\ agent_responses[k].name = dargs.framings[i].name
                  /\ agent_responses[k].framing = dargs.framings[i].framing
                  /\ OwnResponse(i, agent_responses[k].response)

\* A completed deliberation over the names A and B, both answered by a provider.
C14_Witness ==
    /\ dpc = "done"
    /\ FramingNames = {"A", "B"}
    /\ Len(dargs.framings) = 2
    /\ \A i \in 1..2 : tasks[i].frame.pc = "returned"
    /\ session.responses = agent_responses

\* C15: when framings share a name, the response mapping has one entry for
\* the name, holding the framing and the response of the last framing of that
\* name in input order; the mapping has one entry per distinct name.
C15_LastDuplicateWins ==
    BarrierPassed =>
        /\ Len(agent_responses) = Cardinality(FramingNames)
        /\ Keys(agent_responses) = FramingNames
        /\ \A i \in 1..Len(dargs.framings) :
              LastOfName(i) =>
                  \A k \in 1..Len(agent_responses) :
                      agent_responses[k].name = dargs.framings[i].name =>
                          /\ agent_responses[k].framing = dargs.framings[i].framing
                          /\ agent_responses[k].response = tasks[i].result

\* A completed deliberation over two framings of the name A with different
\* instructions and different responses.
C15_Witness ==
    /\ dpc = "done"
    /\ Len(dargs.framings) = 2
    /\ FramingNames = {"A"}
    /\ dargs.framings[1].framing # dargs.framings[2].framing
    /\ tasks[1].result # tasks[2].result
    /\ Len(session.responses) = 1
    /\ session.responses[1].response = tasks[2].result

\* C16: the response mapping is written only after the fan-in barrier and by
\* deliberate alone: no entry is written while an agent call is in flight or
\* not yet begun, the mapping is written whole in one step of deliberate in
\* which no task runs, and never written again.
C16_MappingWrittenAfterBarrier ==
    /\ [](\A i \in 1..Len(tasks) : tasks[i].pc # "returned" => agent_responses = <<>>)
    /\ [][agent_responses' # agent_responses =>
              /\ dpc = "gather" /\ dpc' # "gather"
              /\ \A i \in 1..Len(tasks) : tasks[i].pc = "returned"
              /\ tasks' = tasks
              /\ agent_responses = <<>>
              /\ agent_responses' = build_agent_responses(agents, responses', Len(agents))]_vars

\* The mapping of two entries, written, after both agent calls have completed.
C16_Witness ==
    /\ Len(agent_responses) = 2
    /\ BarrierPassed
    /\ \A i \in 1..Len(tasks) : tasks[i].pc = "returned"

-----------------------------------------------------------------------------
(* Claims about the session log (SpecLog) *)

\* The lines of a file written as `log`: each line the JSON documents that
\* stand on it, a line ending where a write ended with a newline.
RECURSIVE LinesFrom(_, _)
LinesFrom(log, line) ==
    IF log = <<>> THEN (IF line = <<>> THEN <<>> ELSE <<line>>)
    ELSE IF Head(log).newline
         THEN <<Append(line, Head(log).json)>> \o LinesFrom(Tail(log), <<>>)
         ELSE LinesFrom(Tail(log), Append(line, Head(log).json))

Lines(log) == LinesFrom(log, <<>>)

SessionFields ==
    {"timestamp", "question", "framings", "responses", "synthesis", "elapsed_seconds",
     "provider_used"}

IsPrefix(s, t) == Len(s) <= Len(t) /\ SubSeq(t, 1, Len(s)) = s

\* C17: after any sequence of deliberations of which K returned a session,
\* the session log holds exactly K records, the sessions returned in the order
\* of their return, each with the seven session fields; a deliberation that
\* raised contributes none.
C17_OneRecordPerCompletion ==
    /\ Len(Lines(ain_log)) = Len(returned_sessions)
    /\ \A k \in 1..Len(returned_sessions) :
          /\ Lines(ain_log)[k] = <<returned_sessions[k]>>
          /\ DOMAIN returned_sessions[k] = SessionFields
    /\ dpc = "done" => (returned_sessions # <<>> /\ session \in {returned_sessions[k] : k \in 1..Len(returned_sessions)})

\* A deliberation has failed in its synthesis call after an earlier one of
\* the process completed: two deliberations, one record.
C17_Witness ==
    /\ dpc = "raised"
    /\ scall.pc = "raised"
    /\ Len(returned_sessions) = 1
    /\ returned_sessions[1].question \in LogQuestions
    /\ Len(ain_log) = 1

\* C18: the session log is append-only.  Every step leaves the log as it was
\* or with one record more at its end; a deliberation of the process appends
\* only in the step in which it returns its session, so at most once.
C18_AppendOnly ==
    [][/\ IsPrefix(ain_log, ain_log')
       /\ Len(ain_log') <= Len(ain_log) + 1
       /\ (ain_log' # ain_log /\ dpc' # dpc) =>
              /\ dpc = "synth" /\ dpc' = "done"
              /\ ain_log' = Append(ain_log, log_line(session'))
       /\ (dpc = "done" /\ dpc' = "done") => session' = session]_vars

\* A log of two records, the second appended by the deliberation that just
\* returned.
C18_Witness ==
    /\ dpc = "done"
    /\ Len(ain_log) = 2
    /\ ain_log[2] = log_line(session)

-----------------------------------------------------------------------------
(* Claims about the top-level invocation (SpecMain) *)

\* The invocation was asked for structured output (--json or --json-pretty).
JsonMode == args.json \/ args.json_pretty

\* The envelopes on standard output: the positions of its JSON documents.
Envelopes == {k \in 1..Len(stdout) : stdout[k].kind = "json"}

\* Standard output holds one complete envelope.
OneEnvelope ==
    /\ Cardinality(Envelopes) = 1
    /\ \A k \in Envelopes : "ok" \in DOMAIN stdout[k].obj

\* C20: in structured-output mode every invocation puts out exactly one
\* complete envelope, on every path: none before it ends, one when it has ended.
C20_OneEnvelope ==
    JsonMode =>
        /\ mpc = "exited" => OneEnvelope
        /\ mpc # "exited" => Envelopes = {}

\* An invocation in JSON mode has ended on the ValueError of the module-level
\* router construction, with nothing on standard output.
C20_NoEnvelope ==
    /\ JsonMode
    /\ mpc = "exited"
    /\ exit_status = 1
    /\ router.status = "raised"
    /\ router.error.kind = "ValueError"
    /\ stdout = <<>>

\* C21: in structured-output mode nothing but the envelope is ever written to
\* the structured-output channel, whatever the command and the flags (the
\* verbose narration of the provider routing included).
C21_OnlyEnvelope ==
    JsonMode => \A k \in 1..Len(stdout) : stdout[k].kind = "json"

\* An invocation with --json and --verbose has succeeded: standard output holds
\* the router's "Trying ..." line of the synthesis call before the envelope.
C21_NarrationOnStdout ==
    /\ JsonMode
    /\ args.verbose
    /\ mpc = "exited"
    /\ exit_status = 0
    /\ Len(stdout) >= 2
    /\ stdout[1].kind = "text"
    /\ stdout[1].obj[1] = "Trying "
    /\ stdout[Len(stdout)].kind = "json"

\* The invocation met an error: the module-level router construction raised,
\* the config file could not be read or parsed, or an exception left main.
InvocationFailed ==
    \/ router.status = "raised"
    \/ args.config.state \in {"missing", "malformed"}
    \/ mpc \in {"running", "exited"} /\ MainRaised

FailureFields == {"ok", "stage", "error", "error_type", "traceback"}

\* C22: an error of a top-level invocation (a malformed configuration
\* included: an invalid failover-chain override, an unreadable or malformed
\* framings config file) is reported as one failure envelope: ok = false, a
\* stage label, the error message, the error kind and a bounded trace.
C22_FailureEnvelope ==
    (JsonMode /\ mpc = "exited" /\ InvocationFailed) =>
        /\ Cardinality(Envelopes) = 1
        /\ \A k \in Envelopes :
              /\ DOMAIN stdout[k].obj = FailureFields
              /\ stdout[k].obj.ok = FALSE

\* An invocation of custom-deliberate in JSON mode whose config file is
\* malformed has exited with status 0 and an envelope with ok = true that
\* holds main's "Config load failed" error.
C22_ConfigErrorReportedOk ==
    /\ JsonMode
    /\ mpc = "exited"
    /\ args.config.state = "malformed"
    /\ exit_status = 0
    /\ Len(stdout) = 1
    /\ stdout[1].kind = "json"
    /\ stdout[1].obj.ok = TRUE
    /\ DOMAIN stdout[1].obj = {"ok", "error"}
    /\ stdout[1].obj.error[1] = "Config load failed: "

\* C23: every envelope with ok = true carries the session fields of a
\* completed deliberation (responses and synthesis at least) and is put out
\* only when a deliberation completed; every envelope with ok = false carries
\* an error field.
C23_EnvelopeShape ==
    \A k \in Envelopes :
        IF stdout[k].obj.ok = TRUE
        THEN /\ {"responses", "synthesis"} \subseteq DOMAIN stdout[k].obj
             /\ dpc = "done"
             /\ stdout[k].obj = _result_envelope_ok(session)
        ELSE "error" \in DOMAIN stdout[k].obj

\* An invocation of review-writing in JSON mode on a file that does not exist
\* has put out an envelope with ok = true and no session field, no
\* deliberation having been started.
C23_OkWithoutDeliberation ==
    /\ JsonMode
    /\ mpc = "exited"
    /\ args.file = "missing"
    /\ dpc = "idle"
    /\ returned_sessions = <<>>
    /\ Len(stdout) = 1
    /\ stdout[1].kind = "json"
    /\ stdout[1].obj.ok = TRUE
    /\ "synthesis" \notin DOMAIN stdout[1].obj

-----------------------------------------------------------------------------
(* Claims about the router calls of a deliberation (Spec) *)

\* The backends a generate call has invoked so far, and those of them that
\* have failed in it.
InvokedIn(frame) == {frame.available[k] : k \in 1..frame.idx}
FailedIn(frame) ==
    {frame.available[k] : k \in 1..(IF frame.pc = "raised" THEN frame.idx ELSE frame.idx - 1)}

\* C24: within one deliberation a backend that has failed once is never
\* invoked again: the synthesis call, made after every agent call has ended,
\* invokes no backend that failed in an agent call.
C24_NoReinvocation ==
    \A i \in 1..Len(tasks) : FailedIn(tasks[i].frame) \cap InvokedIn(scall) = {}

\* The synthesis call awaits the backend that failed in the call of an agent,
\* which then got its answer from the next one.
C24_Reinvoked ==
    /\ scall.pc = "awaiting"
    /\ \E i \in 1..Len(tasks) :
          /\ tasks[i].frame.pc = "returned"
          /\ tasks[i].frame.idx = 2
          /\ Awaited(scall) = tasks[i].frame.available[1]
          /\ Awaited(scall) \in FailedIn(tasks[i].frame)

\* The ways the provider.generate a call awaits can end.
Outcomes(frame) ==
    {Returned(Awaited(frame), frame.request), Unavailable(Awaited(frame)),
     Failed(Awaited(frame))}

\* While a respond task has not returned, deliberate is at the barrier: no
\* synthesis call, no session, nothing logged.
AtBarrier ==
    /\ dpc = "gather"
    /\ scall.pc = "idle"
    /\ session = NoSession
    /\ ain_log = <<>>
    /\ returned_sessions = <<>>

\* C25: there is no cancellation and no timeout.  A respond task that waits
\* for its backend leaves that wait only when the backend call ends, and as
\* long as one task waits the deliberation is at the fan-in barrier: the
\* synthesis call is not issued, nothing is logged and nothing returned, even
\* when every other agent has completed.
C25_HungCallBlocks ==
    /\ []((\E i \in 1..Len(tasks) : tasks[i].pc \in {"created", "awaiting"}) => AtBarrier)
    /\ [][\A i \in 1..Len(tasks) :
             (InFlight(i) /\ tasks'[i] # tasks[i]) =>
                 \E o \in Outcomes(tasks[i].frame) :
                     tasks'[i] = TaskAt(agents[i], generate_resume(tasks[i].frame, o))]_vars

\* One agent's call still waits for its backend while the other agent has
\* completed; the deliberation is at the barrier.
C25_Witness ==
    /\ Len(tasks) = 2
    /\ tasks[1].pc = "returned"
    /\ InFlight(2)
    /\ AtBarrier

\* The frames of the generate calls begun so far on the shared router: one
\* per started respond task, and the synthesis call.
BegunFrames ==
    {tasks[i].frame : i \in {j \in 1..Len(tasks) : tasks[j].pc # "created"}}
        \cup (IF scall.pc = "idle" THEN {} ELSE {scall})

\* C26: generate and the candidate listing leave the router as constructed,
\* chain and preference included.  Every call begun on the shared router,
\* whatever calls ran before it or run beside it, works through the candidate
\* list of that configuration, and where it stands in the list is decided by
\* the outcomes of its own backend calls only.
C26_RouterUnchanged ==
    /\ [][router' = router]_vars
    /\ [](\A f \in BegunFrames :
             /\ f.available = get_available_providers(router).list
             /\ f.pc = "awaiting" => f.idx \in 1..Len(f.available))
    /\ [][\A i \in 1..Len(tasks) :
             (InFlight(i) /\ UNCHANGED tasks[i]) =>
                 \A j \in 1..Len(tasks) :
                     tasks'[j] # tasks[j] => tasks'[i].frame = tasks[i].frame]_vars

\* Two calls run concurrently on the shared router, one of them already past
\* a backend that failed for it and the other still at the first candidate.
C26_Witness ==
    /\ Len(tasks) = 2
    /\ InFlight(1)
    /\ InFlight(2)
    /\ tasks[1].frame.idx = 2
    /\ tasks[2].frame.idx = 1

\* What a question of review_writing embeds between its two rules.
Embedded(question) == SubSeq(question, 3, Len(question) - 3)

\* C27: a document longer than the truncation budget of 3000 characters is
\* embedded in the review question as exactly its first 3000 characters
\* followed at once by the marker '...'; a document of at most 3000
\* characters is embedded as it is, with nothing appended.  That question is
\* the prompt of every agent.
C27_Truncation ==
    dpc = "gather" =>
        LET e == Embedded(dargs.question) IN
        /\ dargs.question[2] = "---"
        /\ dargs.question[Len(e) + 3] = "---"
        /\ Len(document) > 3000 =>
              /\ Len(e) = 3003
              /\ \A k \in 1..3000 : e[k] = document[k]
              /\ \A k \in 3001..3003 : e[k] = "."
        /\ Len(document) <= 3000 => e = document
        /\ \A i \in 1..Len(tasks) :
              tasks[i].pc # "created" => tasks[i].frame.request.prompt = <<dargs.question>>

\* A document one character over the budget has been read and cut, and the
\* first agent has sent its request.
C27_Witness ==
    /\ dpc = "gather"
    /\ Len(document) = 3001
    /\ Len(Embedded(dargs.question)) = 3003
    /\ tasks[1].pc = "awaiting"

\* The invocation is a review of a document that does not exist, and the
\* module has loaded.
ReviewOfMissingDocument ==
    /\ mpc \in {"loaded", "running", "exited"}
    /\ router.status = "ok"
    /\ args.command = "review-writing"
    /\ args.file = "missing"

\* C28: when the document of a review does not exist, the failure is reported
\* without the deliberation protocol having been invoked: at no point of the
\* invocation is there an agent, a respond task, a router or backend call, a
\* session or a line appended to the session log, and what the invocation
\* puts out is the error "File not found".
C28_MissingDocument ==
    ReviewOfMissingDocument =>
        /\ dpc = "idle"
        /\ dargs = NoDelibArgs
        /\ agents = <<>>
        /\ tasks = <<>>
        /\ rcall = IdleCall
        /\ scall = IdleCall
        /\ session = NoSession
        /\ ain_log = <<>>
        /\ mpc = "exited" =>
              /\ Len(stdout) = 1
              /\ stdout[1].obj.error = <<"File not found">>

\* A review of a missing document has put out its error and exited.
C28_Witness ==
    /\ ReviewOfMissingDocument
    /\ mpc = "exited"
    /\ stdout # <<>>

\* The backends whose calls returned the responses of the agents.
AgentBackends ==
    {tasks[i].frame.result.provider :
        i \in {j \in 1..Len(tasks) : tasks[j].frame.pc = "returned"}}

\* C29: the provider_used field of a session is the chain identifier
\* (anthropic, openai or local) of the backend whose call returned the
\* synthesis text of that session: the backend the synthesis call was waiting
\* for when it returned, whichever backends answered the agents.  The record
\* in the session log carries the same field.
C29_ProviderUsed ==
    dpc = "done" =>
        /\ session.provider_used \in KnownProviders
        /\ session.provider_used = Awaited(scall)
        /\ session.synthesis = Returned(session.provider_used, scall.request).text
        /\ \A p \in KnownProviders \ {session.provider_used} :
              session.synthesis # Returned(p, scall.request).text
        /\ ain_log[Len(ain_log)].json.provider_used = session.provider_used

\* A session whose synthesis came from another backend than the one that
\* answered its agents.
C29_Witness ==
    /\ dpc = "done"
    /\ AgentBackends # {}
    /\ session.provider_used \notin AgentBackends

\* Where the section of entry k of the response mapping starts in the
\* synthesis prompt: after the heading, the question and the title of the
\* responses, and after the sections of the entries before it.
RECURSIVE SectionStart(_)
SectionStart(k) ==
    IF k = 1 THEN 3
    ELSE SectionStart(k - 1) + 5 + Len(agent_responses[k - 1].response)

\* The synthesis call has been made.
SynthesisCalled == scall.pc # "idle"

\* C30: the input of the synthesis call is one prompt, without a system
\* prompt, that holds the original question and then, entry by entry in the
\* order of the response mapping, the name, the framing and the response of
\* each entry unchanged, failure placeholders included; after the section of
\* the last entry only the task description follows, so no entry is left out
\* and no other response is added.
C30_SynthesisInput ==
    SynthesisCalled =>
        LET P == scall.request.prompt
            n == Len(agent_responses)
        IN
        /\ scall.request.system = <<>>
        /\ P = synthesis_prompt
        /\ P[2] = dargs.question
        /\ \A k \in 1..n :
              LET at == SectionStart(k)
                  e  == agent_responses[k]
              IN  /\ P[at + 1] = "## "
                  /\ P[at + 2] = e.name
                  /\ P[at + 4] = e.framing
                  /\ SubSeq(P, at + 6, at + 5 + Len(e.response)) = e.response
        /\ Len(P) = SectionStart(n + 1) + 1
        /\ P[Len(P)] = "Your task: Generate a dialectical synthesis"

\* The synthesis call has been made over a mapping of two entries, the first
\* of them a failure placeholder and the second a backend's answer.
C30_Witness ==
    /\ SynthesisCalled
    /\ Len(agent_responses) = 2
    /\ agent_responses[1].response[1] = "[Error from "
    /\ agent_responses[2].response[1] = "text of "

\* What two frames of generate have in common when they differ at most in
\* the errors they recorded: where they stand, what they returned, and the
\* kind of failure they ended with.
SameCourse(f, g) ==
    /\ f.pc = g.pc
    /\ f.available = g.available
    /\ f.idx = g.idx
    /\ f.result = g.result
    /\ f.error.kind = g.error.kind

\* C31: the router treats both kinds of backend failure alike.  Whichever of
\* the two the awaited candidate raises, the call records that error as its
\* last error and goes on the same way: to the next candidate, or, after the
\* last one, to the failure "All providers failed".  So the backends attempted
\* are the candidates in their order whatever kinds of failure occurred, and a
\* call fails only with every candidate attempted once.
C31_UniformFailurePolicy ==
    /\ rcall.pc = "awaiting" =>
          LET p == Awaited(rcall)
              u == generate_resume(rcall, Unavailable(p))
              f == generate_resume(rcall, Failed(p))
          IN  /\ SameCourse(u, f)
              /\ u.last_error = Unavailable(p).error
              /\ f.last_error = Failed(p).error
              /\ u.pc = "awaiting" => u.idx = rcall.idx + 1
              /\ u.pc # "awaiting" =>
                    /\ rcall.idx = Len(rcall.available)
                    /\ u.pc = "raised"
                    /\ u.error.kind = "RuntimeError"
    /\ \A k \in 1..Len(attempts) : attempts[k].provider = rcall.available[k]
    /\ \A k \in 1..(Len(attempts) - 1) : attempts[k].outcome = "raised"
    /\ (rcall.pc = "raised" /\ rcall.available # <<>>) =>
          /\ Len(attempts) = Len(rcall.available)
          /\ \A k \in 1..Len(attempts) : attempts[k].outcome = "raised"

\* A call has failed after candidates that raised failures of both kinds.
C31_Witness ==
    /\ rcall.pc = "raised"
    /\ \E j, k \in 1..Len(attempts) :
          /\ attempts[j].error.kind = "ProviderUnavailableError"
          /\ attempts[k].error.kind = "ImportError"

\* The router call of the synthesis has failed.
SynthesisFailed == scall.pc = "raised"

\* C32: a failure of the router call of the synthesis is not isolated.  The
\* deliberation ends raised with the error of that call; it builds no
\* session, appends nothing to the session log and returns nothing, the
\* responses the agents gave included.  The step in which the call fails
\* leaves the log and the returned sessions as they were.
C32_SynthesisFailureSurfaces ==
    /\ [](SynthesisFailed =>
             /\ dpc = "raised"
             /\ derror = scall.error
             /\ derror.kind = "RuntimeError"
             /\ session = NoSession
             /\ ain_log = <<>>
             /\ returned_sessions = <<>>)
    /\ [][SynthesisFailed' => (ain_log' = ain_log /\ returned_sessions' = returned_sessions)]_vars
    /\ [](dpc = "done" => scall.pc = "returned")

\* The synthesis call has failed in a deliberation whose first agent had been
\* answered by a backend.
C32_Witness ==
    /\ SynthesisFailed
    /\ dpc = "raised"
    /\ agent_responses # <<>>
    /\ agent_responses[1].response[1] = "text of "

\* The router calls the agents have made.
AgentCalls == {i \in 1..Len(tasks) : tasks[i].frame.pc # "idle"}

\* deliberate has listed the providers and built its agents.
FannedOut == dpc \in {"gather", "synth", "done"} \/ (dpc = "raised" /\ tasks # <<>>)

\* C33: one Agent is constructed per input framing, in input order, framings
\* of the same name included, and each agent makes one respond call, whose
\* router call carries the framing of its position: over N framings the
\* agents make N router calls by the time the barrier is passed, and never
\* more.  The framings field of the session is the input list as it was
\* given.
C33_AgentPerFraming ==
    /\ FannedOut =>
          /\ Len(agents) = Len(dargs.framings)
          /\ Len(tasks) = Len(dargs.framings)
          /\ \A i \in 1..Len(dargs.framings) :
                /\ agents[i].name = dargs.framings[i].name
                /\ agents[i].framing = dargs.framings[i].framing
                /\ i \in AgentCalls =>
                      tasks[i].frame.request = agent_request(agents[i], dargs.question)
    /\ Cardinality(AgentCalls) <= Len(dargs.framings)
    /\ BarrierPassed => Cardinality(AgentCalls) = Len(dargs.framings)
    /\ dpc = "done" => session.framings = dargs.framings

\* A deliberation over two framings of the same name has completed; each of
\* the two agents made its router call.
C33_Witness ==
    /\ dpc = "done"
    /\ Len(dargs.framings) = 2
    /\ dargs.framings[1].name = dargs.framings[2].name
    /\ dargs.framings[1].framing # dargs.framings[2].framing
    /\ AgentCalls = {1, 2}

\* The members of the router's chain.
ChainMembers == {router.priority[i] : i \in 1..Len(router.priority)}

\* The preference names a known backend that the chain does not hold.
PreferredOutsideChain ==
    /\ router.preference \in KnownProviders
    /\ router.preference \notin ChainMembers

\* C34: a preference that names a known backend absent from the chain is
\* still first in the candidate order, followed by the chain as configured,
\* and when that backend is available it is the first one a generate call
\* invokes.  The backends a generate call invokes are among the chain members
\* and the preferred backend.
C34_PreferenceOutsideChain ==
    /\ (rcall.pc # "idle" /\ PreferredOutsideChain) =>
          /\ order(router) = <<router.preference>> \o router.priority
          /\ is_available(router, router.preference) =>
                /\ rcall.available # <<>>
                /\ rcall.available[1] = router.preference
                /\ attempts # <<>>
                /\ attempts[1].provider = router.preference
    /\ \A k \in 1..Len(attempts) :
          attempts[k].provider \in
              ChainMembers \cup (IF router.preference = "auto" THEN {}
                                 ELSE {router.preference})

\* A call invoked the preferred backend, which the chain does not hold, and
\* after its failure went on to a member of the chain.
C34_Witness ==
    /\ PreferredOutsideChain
    /\ Len(attempts) >= 2
    /\ attempts[1].provider = router.preference
    /\ attempts[1].outcome = "raised"
    /\ attempts[2].provider \in ChainMembers

\* The preference of the router is neither 'auto' nor the identifier of a
\* backend.
UnknownPreference == router.preference \notin KnownProviders \cup {"auto"}

\* C35: the construction of a router does not validate the preference.  A
\* router whose preference is neither 'auto' nor a known identifier has been
\* constructed; every candidate listing on it fails with KeyError; a
\* deliberation on it fails with that error at its listing, before any agent
\* is constructed or any backend invoked, and appends nothing to the session
\* log.
C35_UnknownPreference ==
    UnknownPreference =>
        /\ router.status = "ok"
        /\ ~get_available_providers(router).ok
        /\ get_available_providers(router).error = Exc("KeyError", <<router.preference>>)
        /\ generate_begin(router, DirectRequest).pc = "raised"
        /\ dpc \in {"idle", "raised"}
        /\ dpc = "raised" => derror = Exc("KeyError", <<router.preference>>)
        /\ agents = <<>>
        /\ tasks = <<>>
        /\ scall = IdleCall
        /\ session = NoSession
        /\ ain_log = <<>>
        /\ returned_sessions = <<>>

\* A deliberation over two framings has failed at its listing on a router of
\* unknown preference.
C35_Witness ==
    /\ UnknownPreference
    /\ dpc = "raised"
    /\ Len(dargs.framings) = 2

\* deliberate is over: it returned or it raised.
Terminated == dpc \in {"done", "raised"}

\* deliberate returned its session, after appending it to the log.
ReturnedLogged ==
    /\ dpc = "done"
    /\ session.provider_used \in KnownProviders
    /\ ain_log = <<log_line(session)>>
    /\ returned_sessions = <<session>>

\* deliberate raised the error of its synthesis call.
FailedAtSynthesis == dpc = "raised" /\ scall.pc = "raised" /\ derror = scall.error

\* deliberate raised the error of the candidate listing it starts with.
FailedAtListing ==
    /\ dpc = "raised"
    /\ scall.pc = "idle"
    /\ tasks = <<>>
    /\ derror = get_available_providers(router).error
    /\ ~get_available_providers(router).ok

\* A generate call moves forward through its candidates only, and is over
\* once it is past the last of them.
OneAttemptEach(f, g) ==
    /\ g.idx \in {f.idx, f.idx + 1}
    /\ g.idx <= Len(g.available)
    /\ f.pc \in {"returned", "raised"} => g = f

Emitted(b) == \E k \in Envelopes : stdout[k].obj.ok = b

\* The exit status and the envelopes of an ended invocation agree.
StatusAgrees ==
    /\ exit_status = 0 <=> Emitted(TRUE)
    /\ exit_status = 1 <=> Emitted(FALSE)
    /\ ~(Emitted(TRUE) /\ Emitted(FALSE))

\* C37: in structured-output mode the exit status of an invocation agrees
\* with its envelope: status 0 exactly when it put out an envelope with
\* ok = true, status 1 exactly when it put out an envelope with ok = false,
\* and never a failure envelope after the success envelope.
C37_StatusAgreesWithEnvelope == (JsonMode /\ mpc = "exited") => StatusAgrees

\* An invocation in JSON mode has exited with status 1 and without an
\* envelope with ok = false.
C37_StatusOneWithoutEnvelope ==
    /\ JsonMode
    /\ mpc = "exited"
    /\ exit_status = 1
    /\ ~Emitted(FALSE)

\* Past the load of the module the agreement of C37 holds: the __main__ block
\* exits with the status of the envelope it put out.
C37_AgreesOnceLoaded ==
    (JsonMode /\ mpc = "exited" /\ router.status = "ok") => (StatusAgrees /\ OneEnvelope)

-----------------------------------------------------------------------------
(* Claims about the practices service (SpecPractices) *)

\* The element a request asks for: its element preference when that is a
\* string with more than whitespace in it, in lower case; otherwise the
\* element of the first letter of its facet code, 'aether' when there is none.
ElementAsked ==
    LET pref  == IF payload.element_preference.t = "str"
                 THEN strip(payload.element_preference.s) ELSE <<>>
        facet == IF payload.facet_code.t = "str" THEN strip(payload.facet_code.s) ELSE <<>>
    IN  IF pref # <<>> THEN lower(pref)
        ELSE IF facet = <<>> THEN Aether
        ELSE CASE facet[1] \in {"F", "f"} -> Fire
               [] facet[1] \in {"W", "w"} -> Water
               [] facet[1] \in {"E", "e"} -> Earth
               [] facet[1] \in {"A", "a"} -> Air
               [] OTHER -> Aether

\* The element whose practices are returned: 'aether' for an unknown one.
ElementServed == IF ElementAsked \in LibraryKeys THEN ElementAsked ELSE Aether

\* n clamped to [1, 120]
Clamped(n) == IF n < 1 THEN 1 ELSE IF n > 120 THEN 120 ELSE n

\* The practices returned are at most 3, the first practices of the library
\* of the element served, each labelled with the element asked for and
\* lasting the library's minutes or the duration d, whichever is less.
PracticesFor(d) ==
    LET ps  == generated.practices
        lib == library(ElementServed)
    IN  /\ Len(ps) <= 3
        /\ Len(ps) <= Len(lib)
        /\ \A k \in 1..Len(ps) :
              /\ ps[k].title = lib[k].title
              /\ ps[k].element = ElementAsked
              /\ ps[k].duration_min = min(lib[k].minutes, d)

\* The duration of the request as C38 states it: the integer it gives,
\* clamped, and 15 when it gives none or something that is no integer.
DurationStated ==
    LET v == payload.duration_available_min IN
    IF v.t = "int" THEN Clamped(v.n) ELSE 15

\* The duration of the request as int() reads it: an integer as it is, true
\* and false as 1 and 0, a float cut to its integer part, a string that
\* spells an integer (whitespace around it allowed) as that integer; clamped;
\* and 15 for everything else.
DurationRead ==
    LET v == payload.duration_available_min IN
    CASE v.t = "int" -> Clamped(v.n)
      [] v.t = "bool" -> 1
      [] v.t = "float" ->
            LET size == IF v.n >= 0 THEN v.n ELSE -v.n
                part == CHOOSE k \in 0..size : 10 * k <= size /\ size < 10 * k + 10
            IN  Clamped(IF v.n >= 0 THEN part ELSE -part)
      [] v.t = "str" /\ int(v).ok -> Clamped(int(v).n)
      [] OTHER -> 15

\* C38 as stated: generate returns at most 3 practices, all of one element,
\* each lasting min(the library practice's minutes, the requested duration
\* clamped to [1, 120]), with 15 for the duration when the request's duration
\* is missing or not an integer.
C38_PracticesAsStated == generated.state = "ok" => PracticesFor(DurationStated)

\* C38, amended: generate returns at most 3 practices, all of one element
\* (the requested element, else the element of the facet code's first letter,
\* else 'aether'; the practices of 'aether' for an unknown element), each
\* lasting min(the library practice's minutes, d), where d is the requested
\* duration converted by int() and clamped to [1, 120]: floats are truncated,
\* booleans count as 1 and 0, strings that spell an integer are read; d is 15
\* only when the duration is missing or int() rejects it.
C38_Practices ==
    generated.state = "ok" =>
        /\ PracticesFor(DurationRead)
        /\ DurationRead \in 1..120
        /\ Len(generated.practices) = 3

\* A request without a usable element preference whose facet code starts
\* with F asked for 7.9 minutes: it got the fire practices, the first of them
\* cut from 10 minutes to 7.
C38_Witness ==
    /\ generated.state = "ok"
    /\ payload.duration_available_min = JFloat(79)
    /\ payload.element_preference = JNull
    /\ payload.facet_code = JStr(<<"F", "1">>)
    /\ generated.practices[1].element = Fire
    /\ generated.practices[1].duration_min = 7

====
